---- MODULE Spec2Model ----
(***************************************************************************)
(* Model of the Oracle exporter's scrape cycle (src/main.go, part two of   *)
(* that file holds the configuration loader) and of its custom query       *)
(* engine.                                                                 *)
(*                                                                         *)
(* Text is modelled as a sequence of one-character strings where the code  *)
(* inspects or rewrites it (column names, connection descriptors) and as   *)
(* an opaque string where the code only passes it on.                      *)
(***************************************************************************)
EXTENDS Integers, Sequences, FiniteSets, TLC

(***************************************************************************)
(* Bounds of the model.                                                    *)
(***************************************************************************)
\* longest list of custom query specs of one target in the engine specification
MaxQueries == 2
\* most rows a result set holds
MaxRows == 2
\* most scrape requests served in one behaviour
MaxScrapes == 2
\* of the collectors of the -defaultmetrics block, the first MaxDefault run in
\* the model; the others of the block are left out of a task's pipeline
MaxDefault == 1
\* longest text sent as the v parameter of /setTimeout
MaxInputLen == 2
\* the float64 cells label coercion is applied to lie between -MaxUnits and
\* MaxUnits, in steps of a hundredth
MaxUnits == 6
\* most lines the output of one connectivity probe holds
MaxLines == 3
\* calls of execConn that may overlap
MaxCallers == 2

(***************************************************************************)
(* cleanName and the helpers it is made of.                                *)
(***************************************************************************)
ToLower(c) ==
    CASE c = "A" -> "a"
      [] c = "B" -> "b"
      [] c = "L" -> "l"
      [] c = "M" -> "m"
      [] OTHER -> c

\* strings.Replace(s, old, new, -1) for a one-character old and a new of at
\* most one character
ReplaceAll(s, old, new) ==
    IF new = <<>> THEN SelectSeq(s, LAMBDA c : c # old)
    ELSE [i \in 1..Len(s) |-> IF s[i] = old THEN new[1] ELSE s[i]]

LowerAll(s) == [i \in 1..Len(s) |-> ToLower(s[i])]

cleanName(s) ==
    LowerAll(ReplaceAll(ReplaceAll(ReplaceAll(ReplaceAll(s, " ", <<"_">>), "(", <<>>), ")", <<>>), "/", <<>>))

(***************************************************************************)
(* Values a driver scan leaves in an interface{} cell.  A float64 is kept  *)
(* as hundredths n and a decimal exponent x, its value being               *)
(* (n / 100) * 10^x; x is 0 except for the values beyond the int64 range.  *)
(* s is the text of a string cell.                                         *)
(***************************************************************************)
Float(n) == [t |-> "float64", n |-> n, s |-> "", x |-> 0]
Str(s) == [t |-> "string", n |-> 0, s |-> s, x |-> 0]
Int64(n) == [t |-> "int64", n |-> n, s |-> "", x |-> 0]
Nil == [t |-> "nil", n |-> 0, s |-> "", x |-> 0]

\* the float64 m * 10^x
FloatE(m, x) == [t |-> "float64", n |-> 100 * m, s |-> "", x |-> x]

\* the decimal exponents of the float64 cells beyond the int64 range in the
\* model: 10^19 > 2^63
BigExponents == {19, 20}

RECURSIVE StripZeros(_)
\* the decimal digits of n without its trailing zeros
StripZeros(n) == IF n # 0 /\ n % 10 = 0 THEN StripZeros(n \div 10) ELSE n

RECURSIVE NumDigits(_)
NumDigits(n) == IF n < 10 THEN 1 ELSE 1 + NumDigits(n \div 10)

RECURSIVE Pow10(_)
Pow10(k) == IF k = 0 THEN 1 ELSE 10 * Pow10(k - 1)

RECURSIVE Zeros(_)
Zeros(k) == IF k <= 0 THEN "" ELSE "0" \o Zeros(k - 1)

\* strconv.FormatFloat(b, 'e', -1, 64) of the float64 (n / 100) * 10^x, n # 0
FormatFloatE(n, x) ==
    LET a == IF n < 0 THEN 0 - n ELSE n
        d == StripZeros(a)
        k == NumDigits(d)
        e == NumDigits(a) - 3 + x
        lead == d \div Pow10(k - 1)
        rest == d % Pow10(k - 1)
        padText == IF k > 1 THEN Zeros(k - 1 - NumDigits(rest)) ELSE ""
        mant == IF k = 1 THEN ToString(lead)
                ELSE ToString(lead) \o "." \o padText \o ToString(rest)
        ae == IF e < 0 THEN 0 - e ELSE e
    IN (IF n < 0 THEN "-" ELSE "") \o mant \o "e" \o (IF e < 0 THEN "-" ELSE "+")
            \o (IF ae < 10 THEN "0" ELSE "") \o ToString(ae)

\* b == float64(int64(b)): the conversion to int64 truncates; beyond the
\* int64 range its result depends on the platform and differs from b on
\* every one (the smallest int64 on amd64, the largest on arm64)
IsInteger(val) == val.x = 0 /\ val.n % 100 = 0

\* the label text the engine derives from a scanned cell
LabelValue(val) ==
    IF val.t = "string" THEN val.s
    ELSE IF val.t = "float64"
         THEN (IF IsInteger(val) THEN ToString(val.n \div 100) ELSE FormatFloatE(val.n, val.x))
         ELSE "0"

(***************************************************************************)
(* The custom query engine: ScrapeCustomQueries.                           *)
(*                                                                         *)
(* A target descriptor (Config) is                                         *)
(*   [Connection, Database, Instance, Queries];                            *)
(* a query spec (Query) is [Name, Metrics, Labels]; the SQL text and the   *)
(* help text never influence control flow and are left out.                *)
(* A metric family (GaugeVec) is [labels, series]: the declared variable   *)
(* label names of addCustomsql without the four fixed ones, and the        *)
(* series it holds, a function from label tuples to values.                *)
(* What the database returns for one QueryContext call is                  *)
(*   [err, cols, rows, scanErr]: scanErr = r > 0 says rows.Scan fails on   *)
(* row r.                                                                  *)
(***************************************************************************)
EmptyMap == [x \in {} |-> 0]

MapPut(m, k, v) == [x \in DOMAIN m \cup {k} |-> IF x = k THEN v ELSE m[x]]

RECURSIVE FindColumn(_, _, _)
FindColumn(name, cols, i) ==
    IF i > Len(cols) THEN 0
    ELSE IF cleanName(name) = cleanName(cols[i]) THEN i
    ELSE FindColumn(name, cols, i + 1)

RECURSIVE FindColumnVerbatim(_, _, _)
FindColumnVerbatim(name, cols, i) ==
    IF i > Len(cols) THEN 0
    ELSE IF name = cols[i] THEN i
    ELSE FindColumnVerbatim(name, cols, i + 1)

\* mutant of ColumnIndex: the names are compared as written, without cleanName
ColumnIndexVerbatim(name, cols) == FindColumnVerbatim(name, cols, 1)

\* the index of the first result column that matches name; 0 is the code's -1
ColumnIndex(name, cols) == FindColumn(name, cols, 1)

RECURSIVE LabelLoop(_, _, _, _)
\* the loop over query.Labels: found = FALSE is its break QueryLoop
LabelLoop(labels, cols, vals, promLabels) ==
    IF labels = <<>> THEN [found |-> TRUE, promLabels |-> promLabels]
    ELSE LET labelColumnIndex == ColumnIndex(Head(labels), cols)
         IN IF labelColumnIndex = 0
            THEN [found |-> FALSE, promLabels |-> promLabels]
            ELSE LabelLoop(Tail(labels), cols, vals,
                           MapPut(promLabels, cleanName(Head(labels)),
                                  LabelValue(vals[labelColumnIndex])))

\* GaugeVec.With panics unless the labels given are exactly the declared ones
VecAccepts(vec, promLabels) ==
    /\ Cardinality(DOMAIN promLabels) = Len(vec.labels)
    /\ \A i \in 1..Len(vec.labels) : vec.labels[i] \in DOMAIN promLabels

SeriesId(conn, metric, rownum, promLabels) ==
    [database |-> conn.Database, dbinstance |-> conn.Instance, metric |-> metric,
     rownum |-> ToString(rownum), labels |-> promLabels]

\* mutant of VecSet: the value is added to the one the series holds
VecSetAdds(cmap, name, id, metricValue) ==
    [cmap EXCEPT ![name].series =
        MapPut(cmap[name].series, id,
               IF id \in DOMAIN cmap[name].series THEN cmap[name].series[id] + metricValue
               ELSE metricValue)]

\* e.custom[name].With(promLabels).Set(metricValue)
VecSet(cmap, name, id, metricValue) ==
    [cmap EXCEPT ![name].series = MapPut(cmap[name].series, id, metricValue)]

\* mutant of IsFloat64: the type assertion accepts a cell of any type
IsFloat64Always(val) == TRUE

\* metricValue, ok := vals[metricColumnIndex].(float64)
IsFloat64(val) == val.t = "float64"

RECURSIVE MetricLoop(_, _, _, _, _, _, _)
\* the loop over query.Metrics for one scanned row; ctl is how it leaves:
\* "next" (row done), "break" (break QueryLoop) or "panic"
MetricLoop(cmap, conn, query, cols, vals, rownum, metrics) ==
    IF metrics = <<>> THEN [custom |-> cmap, ctl |-> "next"]
    ELSE LET metric == Head(metrics)
             metricColumnIndex == ColumnIndex(metric, cols)
         IN IF metricColumnIndex = 0
            THEN MetricLoop(cmap, conn, query, cols, vals, rownum, Tail(metrics))
            ELSE IF ~IsFloat64(vals[metricColumnIndex])
            THEN MetricLoop(cmap, conn, query, cols, vals, rownum, Tail(metrics))
            ELSE LET l == LabelLoop(query.Labels, cols, vals, EmptyMap)
                 IN IF ~l.found THEN [custom |-> cmap, ctl |-> "break"]
                    ELSE IF \/ query.Name \notin DOMAIN cmap
                            \/ ~VecAccepts(cmap[query.Name], l.promLabels)
                    THEN [custom |-> cmap, ctl |-> "panic"]
                    ELSE MetricLoop(VecSet(cmap, query.Name,
                                           SeriesId(conn, metric, rownum, l.promLabels),
                                           vals[metricColumnIndex].n),
                                    conn, query, cols, vals, rownum, Tail(metrics))

RECURSIVE QueryLoopReturns(_, _, _, _, _)
\* mutant of QueryLoop: a missing label leaves the whole function (return)
\* instead of the row loop (break QueryLoop)
QueryLoopReturns(cmap, conn, query, res, rownum) ==
    IF rownum > Len(res.rows) \/ res.scanErr = rownum
    THEN [custom |-> cmap, ctl |-> "next", warned |-> 0]
    ELSE LET r == MetricLoop(cmap, conn, query, res.cols, res.rows[rownum], rownum,
                             query.Metrics)
         IN IF r.ctl = "next" THEN QueryLoopReturns(r.custom, conn, query, res, rownum + 1)
            ELSE [custom |-> r.custom, ctl |-> IF r.ctl = "panic" THEN "panic" ELSE "return",
                  warned |-> IF r.ctl = "break" THEN rownum ELSE 0]

RECURSIVE QueryLoop(_, _, _, _, _)
\* the loop over rows.Next(); a Scan error breaks it; warned is the row at
\* which the missing label was logged before break QueryLoop (0: none)
QueryLoop(cmap, conn, query, res, rownum) ==
    IF rownum > Len(res.rows) \/ res.scanErr = rownum
    THEN [custom |-> cmap, ctl |-> "next", warned |-> 0]
    ELSE LET r == MetricLoop(cmap, conn, query, res.cols, res.rows[rownum], rownum,
                             query.Metrics)
         IN IF r.ctl = "next" THEN QueryLoop(r.custom, conn, query, res, rownum + 1)
            ELSE [custom |-> r.custom, ctl |-> IF r.ctl = "panic" THEN "panic" ELSE "next",
                  warned |-> IF r.ctl = "break" THEN rownum ELSE 0]

\* one iteration of the loop over conn.Queries; ctl is "next" (go on with the
\* next spec), "return" (the function returns) or "panic" (recovered: returns)
CustomQuery(cmap, conn, query, res) ==
    IF res.err THEN [custom |-> cmap, ctl |-> "return", warned |-> 0]
    ELSE QueryLoop(cmap, conn, query, res, 1)

\* a fresh GaugeVec as addCustomsql builds it for one query spec
NewGaugeVec(query) ==
    [labels |-> [i \in 1..Len(query.Labels) |-> cleanName(query.Labels[i])],
     series |-> EmptyMap]

RECURSIVE AddQueries(_, _)
AddQueries(cmap, queries) ==
    IF queries = <<>> THEN cmap
    ELSE AddQueries(MapPut(cmap, Head(queries).Name, NewGaugeVec(Head(queries))),
                    Tail(queries))

RECURSIVE addCustomsql(_, _)
\* e.custom after addCustomsql ran over the target list cfgs
addCustomsql(cmap, cfgs) ==
    IF cfgs = <<>> THEN cmap
    ELSE addCustomsql(AddQueries(cmap, Head(cfgs).Queries), Tail(cfgs))

(***************************************************************************)
(* Data of the engine specification.                                       *)
(***************************************************************************)
ColA == <<"A">>
ColL == <<"L", "(", ")">>
ColB == <<"b">>
\* the columns every result set of the engine specification has
ResultCols == <<ColA, ColL, ColB>>

Row1 == <<Float(700), Str("x"), Float(100)>>
Row2 == <<Int64(7), Float(500), Float(200)>>
Row3 == <<Float(725), Float(525), Nil>>
RowSet == {Row1, Row2, Row3}

\* the specs a target of the engine specification may declare: q1 names a
\* metric column the result lacks, q2 and q4 name a label column it lacks
QuerySet ==
    { [Name |-> "q1", Metrics |-> <<<<"a">>, <<"m">>>>, Labels |-> <<<<"l">>>>],
      [Name |-> "q2", Metrics |-> <<<<"B">>, <<"a">>>>, Labels |-> <<<<"l">>, <<"x">>>>],
      [Name |-> "q3", Metrics |-> <<<<"A">>, <<"b">>>>, Labels |-> <<>>],
      [Name |-> "q4", Metrics |-> <<<<"a">>>>, Labels |-> <<<<"x">>, <<"L">>>>] }

SeqsUpTo(S, n) == UNION { [1..k -> S] : k \in 0..n }

\* lists of specs with pairwise different names
QueryLists ==
    { qs \in SeqsUpTo(QuerySet, MaxQueries) :
        /\ Len(qs) >= 1
        /\ \A i, j \in 1..Len(qs) : i # j => qs[i].Name # qs[j].Name }

ErrAnswer == [err |-> TRUE, cols |-> <<>>, rows |-> <<>>, scanErr |-> 0]

RowsAnswer(rows, scanErr) ==
    [err |-> FALSE, cols |-> ResultCols, rows |-> rows, scanErr |-> scanErr]

(***************************************************************************)
(* Data of the scrape specification: connection descriptors are kept as    *)
(* token sequences so that splitConnStr can take them apart.               *)
(***************************************************************************)
RECURSIVE SplitAcc(_, _, _, _)
SplitAcc(str, sep, cur, acc) ==
    IF str = <<>> THEN Append(acc, cur)
    ELSE IF Head(str) = sep THEN SplitAcc(Tail(str), sep, <<>>, Append(acc, cur))
    ELSE SplitAcc(Tail(str), sep, Append(cur, Head(str)), acc)

\* strings.Split(str, sep)
Split(str, sep) == SplitAcc(str, sep, <<>>, <<>>)

\* splitConnStr: <<ipport, svname>> of user@ipport/svname?options
splitConnStr(str) ==
    LET sts == Split(str, "@")
    IN IF Len(sts) >= 2
       THEN LET ips == Split(sts[2], "/")
            IN IF Len(ips) >= 2
               THEN <<ips[1], Split(ips[2], "?")[1]>>
               ELSE <<<<"??">>, <<"???">>>>
       ELSE <<<<"??">>, <<"???">>>>

QueryA == [Name |-> "qa", Metrics |-> <<<<"a">>>>, Labels |-> <<<<"l">>>>]
QueryB == [Name |-> "qb", Metrics |-> <<<<"b">>>>, Labels |-> <<>>]
QueryC == [Name |-> "qc", Metrics |-> <<<<"a">>>>, Labels |-> <<>>]

\* the target lists a configuration file may hold: the one loaded at start-up
\* and the one a reload brings
ConfigOld ==
    << [Connection |-> <<"u", "@", "h1", "/", "s1">>, Database |-> "", Instance |-> "",
        Queries |-> <<QueryA, QueryB>>],
       [Connection |-> <<"u", "@", "h2", "/", "s2", "?", "o">>, Database |-> "DB2",
        Instance |-> "I2", Queries |-> <<>>] >>

ConfigNew ==
    << [Connection |-> <<"u", "@", "h3", "/", "s3">>, Database |-> "DB3", Instance |-> "I3",
        Queries |-> <<QueryC, QueryB>>],
       [Connection |-> <<>>, Database |-> "DB4", Instance |-> "I4", Queries |-> <<>>] >>

\* what the identity probe of Connect reads from v$database, v$instance
ProbeNames(conf) ==
    LET sp == splitConnStr(conf.Connection)
    IN [Database |-> "db_" \o sp[2][1], Instance |-> "in_" \o sp[2][1]]

\* start-up flags (their defaults)
pMetrics == TRUE
pRecovery == FALSE
pTabRows == FALSE
pTabBytes == FALSE
pIndBytes == FALSE
pLobBytes == FALSE

\* the query parameters a scrape request may carry
RequestFlags == { {}, {"tablerows"} }

\* the collectors of a target's collection task, in the order Collect runs them
Collectors ==
    << "ScrapeRecovery",
       "ScrapeUptime", "ScrapeSession", "ScrapeSysstat", "ScrapeWaitclass",
       "ScrapeSysmetric", "ScrapeTablespace", "ScrapeInterconnect", "ScrapeRedo",
       "ScrapeCache", "ScrapeServices", "ScrapeParameter", "ScrapeAsmspace",
       "ScrapeCustomQueries",
       "ScrapeTablerows", "ScrapeTablebytes", "ScrapeIndexbytes", "ScrapeLobbytes" >>

\* whether Collect calls collector c, the request flags being vflags
CollectorEnabled(c, vflags) ==
    CASE c = "ScrapeRecovery" -> ("recovery" \in vflags \/ pRecovery)
      [] c = "ScrapeCustomQueries" -> TRUE
      [] c = "ScrapeTablerows" -> ("tablerows" \in vflags \/ pTabRows)
      [] c = "ScrapeTablebytes" -> ("tablebytes" \in vflags \/ pTabBytes)
      [] c = "ScrapeIndexbytes" -> ("indexbytes" \in vflags \/ pIndBytes)
      [] c = "ScrapeLobbytes" -> ("lobbytes" \in vflags \/ pLobBytes)
      [] OTHER -> pMetrics

\* the timing block of Collect a collector belongs to: the used_times column
\* written when the block is left
Block(c) ==
    IF c \in {"ScrapeRecovery", "ScrapeCustomQueries", "ScrapeTablerows",
              "ScrapeTablebytes", "ScrapeIndexbytes", "ScrapeLobbytes"}
    THEN c ELSE "pMetrics"

\* the collectors a task of the model goes through
Pipeline ==
    SelectSeq(Collectors,
              LAMBDA c : Block(c) # "pMetrics"
                         \/ \E n \in 1..MaxDefault :
                               /\ n + 1 <= Len(Collectors)
                               /\ Collectors[n + 1] = c
                               /\ Block(c) = "pMetrics")

\* the used_times column Collect writes after position pos ("" if none)
TimingColumn(pos) ==
    IF pos = Len(Pipeline) \/ Block(Pipeline[pos + 1]) # Block(Pipeline[pos])
    THEN Block(Pipeline[pos]) ELSE ""

Scrapes == 1..MaxScrapes

VARIABLES
    alive,        \* the process is running (log.Fatalf has not ended it)
    config,       \* config.Cfgs, the active target list
    loaded,       \* history: the target lists loadConfig has installed, in order
    custom,       \* e.custom: query name -> GaugeVec
    up,           \* e.up: [database, dbinstance] -> 0 or 1
    usedTimes,    \* e.used_times: the label tuples that hold a timing
    builtin,      \* the series of the built-in families: [fam, database, dbinstance]
    totalScrapes, \* e.totalScrapes
    errorGauge,   \* e.error
    gctx,         \* e.gctx: the scrape whose context was stored last (0: none)
    vflags,       \* e.vTabRows ... e.vRecovery, as the set of flags that are true
    run,          \* per scrape: the state of its Collect call
    att,          \* per scrape: its connect attempts, one per target
    task,         \* per scrape: its collection tasks, one per target
    reloadPc,     \* the /reloadConfig handler: "idle" or "loaded"
    reloadReply,  \* what the last /reloadConfig request was answered
    cqConn,       \* engine specification: the target ScrapeCustomQueries is called for
    cqRows,       \* engine specification: the rows the target's database holds
    cqIdx,        \* engine specification: index of the spec the loop is at
    cqPc,         \* engine specification: "run" or "returned"
    cqAnswers,    \* engine specification: what the database answered, per spec index
    cqWarned,     \* engine specification: per spec index, the row at which the
                  \* "Label ... not found" warning was logged (0: it was not)
    timeout,      \* *timeout: the budget of a scrape, in seconds
    tmOp,         \* the last timeout request: "none", "set" or "get"
    tmInput,      \* the v parameter of the last /setTimeout request
    tmBefore,     \* history: *timeout when the last /setTimeout request arrived
    tmReply,      \* what the last timeout request was answered
    lvCell,       \* coercion specification: the scanned cell of a label column
    lvText,       \* coercion specification: the label text derived from it
    probe,        \* execConn: its position, the probe's output, the lines not yet
                  \* parsed and the used_times values it has set
    testStepAll,  \* the number of values the channel handed to execConn holds
    calls         \* per caller of execConn: its position, the number of lines of
                  \* the probe's output not yet parsed, and how its last call ended

engineVars == <<cqConn, cqRows, cqIdx, cqPc, cqAnswers, cqWarned>>

adminVars == <<timeout, tmOp, tmInput, tmBefore, tmReply>>

coerceVars == <<lvCell, lvText>>

slotVars == <<testStepAll, calls>>

\* what a step of the scrape cycle leaves alone
otherVars == <<engineVars, adminVars, coerceVars, probe, slotVars>>

storeVars == <<up, usedTimes, builtin>>

scrapeVars == <<alive, config, loaded, up, usedTimes, builtin, totalScrapes, errorGauge,
                gctx, vflags, run, att, task, reloadPc, reloadReply>>

vars == <<alive, config, loaded, custom, up, usedTimes, builtin, totalScrapes, errorGauge,
          gctx, vflags, run, att, task, reloadPc, reloadReply,
          cqConn, cqRows, cqIdx, cqPc, cqAnswers, cqWarned,
          timeout, tmOp, tmInput, tmBefore, tmReply, lvCell, lvText, probe,
          testStepAll, calls>>

\* the default of the -timeout flag
TimeoutDefault == 5

\* Collect has not been called yet for this scrape
IdleRun ==
    [pc |-> "idle", ii |-> 0, i |-> 0, wg |-> 0, ch |-> <<>>, chClosed |-> FALSE,
     ctxDone |-> FALSE, fired |-> FALSE, startGen |-> 0, snapGen |-> 0,
     consumed |-> {}, rendered |-> [builtin |-> {}, custom |-> EmptyMap, usedTimes |-> {}],
     flags |-> {}, wroteBuiltin |-> {}, wroteCustom |-> {}]

\* the exporter after main has loaded cfgs and built the Exporter, the
\* -timeout flag being t
ScrapeInitAt(cfgs, t) ==
    /\ alive = TRUE
    /\ config = cfgs
    /\ loaded = <<cfgs>>
    /\ custom = addCustomsql(EmptyMap, cfgs)
    /\ up = EmptyMap
    /\ usedTimes = {}
    /\ builtin = {}
    /\ totalScrapes = 0
    /\ errorGauge = 0
    /\ gctx = 0
    /\ vflags = {}
    /\ run = [s \in Scrapes |-> IdleRun]
    /\ att = [s \in Scrapes |-> <<>>]
    /\ task = [s \in Scrapes |-> <<>>]
    /\ reloadPc = "idle"
    /\ reloadReply = "none"
    /\ timeout = t
    /\ tmOp = "none"
    /\ tmInput = <<>>
    /\ tmBefore = t
    /\ tmReply = ""
    /\ lvCell = Str("")
    /\ lvText = ""
    /\ probe = [pc |-> "idle", out |-> <<>>, rest |-> <<>>, writes |-> {}]
    /\ testStepAll = 0
    /\ calls = [c \in 1..MaxCallers |-> [pc |-> "idle", left |-> 0, last |-> "none"]]

\* the same, started without a -timeout flag
ScrapeInitWith(cfgs) == ScrapeInitAt(cfgs, TimeoutDefault)

EngineInit ==
    /\ cqConn \in { [Connection |-> <<"u", "@", "h1", "/", "s1">>, Database |-> "DB1",
                     Instance |-> "I1", Queries |-> qs] : qs \in QueryLists }
    /\ cqRows \in SeqsUpTo(RowSet, MaxRows)
    /\ ScrapeInitWith(<<cqConn>>)
    /\ cqIdx = 1
    /\ cqPc = "run"
    /\ cqAnswers = <<>>
    /\ cqWarned = <<>>

\* the engine's loop takes one spec, the database answering it by res
CustomQueryStep(res) ==
    /\ cqPc = "run"
    /\ cqIdx <= Len(cqConn.Queries)
    /\ LET r == CustomQuery(custom, cqConn, cqConn.Queries[cqIdx], res)
       IN /\ custom' = r.custom
          /\ cqPc' = IF r.ctl = "next" /\ cqIdx < Len(cqConn.Queries) THEN "run"
                     ELSE "returned"
          /\ cqIdx' = IF r.ctl = "next" THEN cqIdx + 1 ELSE cqIdx
          /\ cqWarned' = Append(cqWarned, r.warned)
    /\ cqAnswers' = Append(cqAnswers, res)
    /\ UNCHANGED <<cqConn, cqRows>>
    /\ UNCHANGED scrapeVars
    /\ UNCHANGED <<adminVars, coerceVars, probe, slotVars>>

\* QueryContext fails
QueryFails == CustomQueryStep(ErrAnswer)

\* QueryContext succeeds; the scan of row scanErr fails (0: none does)
QueryRuns == \E scanErr \in 0..Len(cqRows) : CustomQueryStep(RowsAnswer(cqRows, scanErr))

EngineNext == QueryFails \/ QueryRuns

EngineSpec == EngineInit /\ [][EngineNext]_vars

(***************************************************************************)
(* Claims about the custom query engine, checked under EngineSpec.         *)
(***************************************************************************)
Executed == DOMAIN cqAnswers

LabelsResolve(query, cols) ==
    \A k \in 1..Len(query.Labels) :
        \E c \in 1..Len(cols) : cleanName(query.Labels[k]) = cleanName(cols[c])

Matches(name, cols) == \E c \in 1..Len(cols) : cleanName(name) = cleanName(cols[c])

\* the value of the first result column of row vals that matches name
MatchedCell(name, cols, vals) ==
    vals[CHOOSE c \in 1..Len(cols) :
            /\ cleanName(name) = cleanName(cols[c])
            /\ \A d \in 1..(c - 1) : cleanName(name) # cleanName(cols[d])]

\* the rows of answer res whose scan succeeded
ScannedRows(res) ==
    IF res.scanErr = 0 THEN 1..Len(res.rows) ELSE 1..(res.scanErr - 1)

\* C6 (as claimed): an execution error of one custom spec's SQL is isolated to
\* that spec: once ScrapeCustomQueries has returned, every sibling spec declared
\* after a spec whose query failed has been executed too.
C6_ExecErrorIsolated ==
    cqPc = "returned" =>
        \A i \in Executed :
            cqAnswers[i].err => \A j \in (i + 1)..Len(cqConn.Queries) : j \in Executed

\* C7: a spec that declares a label column no result column matches (and a
\* metric column that exists) emits zero series, whatever the rows and wherever
\* the missing label stands in the list; the mismatch does not stop the loop
\* over the target's specs, and every other spec that ran holds the series its
\* own result gives.
C7_MissingLabelNoSeries ==
    cqPc = "returned" =>
        \A i \in Executed :
            LET q == cqConn.Queries[i]
                fresh == addCustomsql(EmptyMap, <<cqConn>>)
            IN (/\ ~cqAnswers[i].err
                /\ ~LabelsResolve(q, ResultCols)
                /\ \E k \in 1..Len(q.Metrics) : Matches(q.Metrics[k], ResultCols))
               => /\ custom[q.Name].series = EmptyMap
                  /\ i < Len(cqConn.Queries) => i + 1 \in Executed
                  /\ \A j \in Executed \ {i} :
                        LET qj == cqConn.Queries[j]
                        IN custom[qj.Name].series
                             = CustomQuery(fresh, cqConn, qj, cqAnswers[j]).custom[qj.Name].series

\* C7 witness: a spec with a missing label met rows whose metric cell is a
\* float64, and a sibling declared after it emitted series.
C7_Witness ==
    /\ cqPc = "returned"
    /\ \E i, j \in Executed :
        /\ i < j
        /\ ~cqAnswers[i].err /\ cqAnswers[i].scanErr = 0
        /\ Len(cqRows) >= 2
        /\ ~LabelsResolve(cqConn.Queries[i], ResultCols)
        /\ \E k \in 1..Len(cqConn.Queries[i].Metrics) :
              /\ Matches(cqConn.Queries[i].Metrics[k], ResultCols)
              /\ MatchedCell(cqConn.Queries[i].Metrics[k], ResultCols, cqRows[1]).t = "float64"
        /\ custom[cqConn.Queries[j].Name].series # EmptyMap

\* the (metric, rownum) pairs of the series family vec holds
EmittedPairs(vec) == { <<id.metric, id.rownum>> : id \in DOMAIN vec.series }

\* C8 (as claimed): for a spec whose label columns all resolve, every scanned
\* row gives exactly one series per declared metric column that matches a result column,
\* carrying that column's value, and none for an unmatched one.
C8_OneSeriesPerMatchedMetric ==
    cqPc = "returned" =>
        \A i \in Executed :
            LET q == cqConn.Queries[i]
                res == cqAnswers[i]
                want == { <<q.Metrics[k], ToString(r)>> :
                            k \in { k \in 1..Len(q.Metrics) : Matches(q.Metrics[k], res.cols) },
                            r \in ScannedRows(res) }
            IN (~res.err /\ LabelsResolve(q, res.cols))
               => /\ EmittedPairs(custom[q.Name]) = want
                  /\ Cardinality(DOMAIN custom[q.Name].series) = Cardinality(want)

\* C8 (amended): for a spec whose label columns all resolve, every scanned row
\* gives exactly one series per declared metric column that
\* matches a result column (cleanName on both sides) and whose cell in that row
\* is a float64, carrying that cell's value, and none for any other column.
C8_OneSeriesPerMatchedFloatMetric ==
    cqPc = "returned" =>
        \A i \in Executed :
            LET q == cqConn.Queries[i]
                res == cqAnswers[i]
                wantFloat == { p \in { <<q.Metrics[k], r>> :
                                         k \in 1..Len(q.Metrics), r \in ScannedRows(res) } :
                                 /\ Matches(p[1], res.cols)
                                 /\ MatchedCell(p[1], res.cols, res.rows[p[2]]).t = "float64" }
            IN (~res.err /\ LabelsResolve(q, res.cols))
               => /\ EmittedPairs(custom[q.Name])
                        = { <<p[1], ToString(p[2])>> : p \in wantFloat }
                  /\ Cardinality(DOMAIN custom[q.Name].series) = Cardinality(wantFloat)
                  /\ \A id \in DOMAIN custom[q.Name].series :
                        \E p \in wantFloat :
                            /\ id.metric = p[1] /\ id.rownum = ToString(p[2])
                            /\ custom[q.Name].series[id]
                                 = MatchedCell(p[1], res.cols, res.rows[p[2]]).n

\* C8 witness: q1 (metrics a and the missing m, label l) ran over two scanned
\* rows and holds a series for a and none for m.
C8_Witness ==
    /\ cqPc = "returned"
    /\ \E i \in Executed :
        /\ cqConn.Queries[i].Name = "q1"
        /\ ~cqAnswers[i].err /\ cqAnswers[i].scanErr = 0 /\ Len(cqRows) = 2
        /\ \E id \in DOMAIN custom["q1"].series : id.metric = <<"a">>
        /\ \A id \in DOMAIN custom["q1"].series : id.metric # <<"m">>

(***************************************************************************)
(* The scrape cycle: Handler, Collect, Connect, the connect attempts and   *)
(* the collection tasks, and the /reloadConfig handler.                    *)
(*                                                                         *)
(* Requests are served one after the other: Handler(s) is taken once       *)
(* Collect of scrape s - 1 has returned and the goroutines it started have *)
(* ended.  A blocking database call that never returns is a step that is   *)
(* never taken.                                                            *)
(***************************************************************************)
UpKey(conf) == [database |-> conf.Database, dbinstance |-> conf.Instance]

TimingKey(conf, column) ==
    LET sp == splitConnStr(conf.Connection)
    IN <<sp[1], sp[2], column>>

\* resetAllMetrics on the custom families: every registered vec is emptied
ResetCustom(cmap) == [n \in DOMAIN cmap |-> [cmap[n] EXCEPT !.series = EmptyMap]]

\* whether every goroutine scrape s started has ended
Quiet(s) ==
    /\ run[s].pc = "returned"
    /\ \A k \in DOMAIN att[s] : att[s][k].pc = "done"
    /\ \A k \in DOMAIN task[s] : task[s][k].pc \in {"none", "done"}

\* what is kept of a scrape that has ended once the next request is served:
\* its closed channel and its cancelled context
Returned == [IdleRun EXCEPT !.pc = "returned", !.chClosed = TRUE, !.ctxDone = TRUE]

\* a scrape request arrives: Handler sets the request flags, Collect counts the
\* scrape, derives its context and stores it in e.gctx
Handler(s, flags) ==
    /\ alive
    /\ s = totalScrapes + 1
    /\ s > 1 => Quiet(s - 1)
    /\ run[s].pc = "idle"
    /\ vflags' = flags
    /\ totalScrapes' = totalScrapes + 1
    /\ gctx' = s
    /\ run' = [r \in Scrapes |->
                 IF r = s THEN [run[s] EXCEPT !.pc = "connect", !.startGen = Len(loaded),
                                              !.flags = flags]
                 ELSE IF r = s - 1 THEN Returned ELSE run[r]]
    /\ att' = [r \in Scrapes |-> IF r = s - 1 THEN <<>> ELSE att[r]]
    /\ task' = [r \in Scrapes |-> IF r = s - 1 THEN <<>> ELSE task[r]]
    /\ UNCHANGED <<alive, config, loaded, custom, up, usedTimes, builtin, errorGauge,
                   reloadPc, reloadReply>>
    /\ UNCHANGED otherVars

\* mutant of ChanCap: one place less than there are targets
ChanCapShort(cfgs) == IF Len(cfgs) > 1 THEN Len(cfgs) - 1 ELSE Len(cfgs)

\* the capacity of the outcome channel Connect makes for the target list cfgs
ChanCap(cfgs) == Len(cfgs)

\* Connect, under cfgLok: resetAllMetrics, the outcome channel, and one
\* attempt goroutine per target, each with its own copy of the descriptor
Connect(s) ==
    /\ alive
    /\ run[s].pc = "connect"
    /\ up' = EmptyMap
    /\ usedTimes' = {}
    /\ builtin' = {}
    /\ custom' = ResetCustom(custom)
    /\ att' = [att EXCEPT ![s] =
                 [k \in 1..Len(config) |->
                     [conf |-> config[k], db |-> "nil", pc |-> "start", outcome |-> "none",
                      ctx |-> 0]]]
    /\ task' = [task EXCEPT ![s] =
                 [k \in 1..Len(config) |->
                     [pc |-> "none", pos |-> 0, qi |-> 1, conn |-> config[k], db |-> "nil",
                      ran |-> {}, failed |-> {}, ctx |-> 0]]]
    /\ run' = [run EXCEPT ![s].pc = IF ChanCap(config) = 0 THEN "join" ELSE "consume",
                          ![s].ii = ChanCap(config),
                          ![s].snapGen = Len(loaded)]
    /\ UNCHANGED <<alive, config, loaded, totalScrapes, errorGauge, gctx, vflags,
                   reloadPc, reloadReply>>
    /\ UNCHANGED otherVars

AttemptFrame ==
    /\ UNCHANGED <<alive, config, loaded, custom, usedTimes, builtin, totalScrapes,
                   errorGauge, gctx, vflags, task, reloadPc, reloadReply>>
    /\ UNCHANGED otherVars

AttemptAt(s, k, pc) ==
    /\ alive
    /\ k \in DOMAIN att[s]
    /\ att[s][k].pc = pc

\* an attempt starts: a zero-length descriptor is written down at once,
\* otherwise sql.Open succeeds and PingContext is issued
AttemptStart(s, k) ==
    /\ AttemptAt(s, k, "start")
    /\ LET conf == att[s][k].conf
       IN IF Len(conf.Connection) > 0
          THEN /\ att' = [att EXCEPT ![s][k].pc = "ping", ![s][k].ctx = gctx]
               /\ up' = up
          ELSE /\ att' = [att EXCEPT ![s][k].pc = "send", ![s][k].outcome = "dummy"]
               /\ up' = MapPut(up, UpKey(conf), 0)
    /\ UNCHANGED run
    /\ AttemptFrame

\* sql.Open fails: the attempt returns with conf.db nil
AttemptOpenFails(s, k) ==
    /\ AttemptAt(s, k, "start")
    /\ Len(att[s][k].conf.Connection) > 0
    /\ att' = [att EXCEPT ![s][k].pc = "send", ![s][k].outcome = "open failed"]
    /\ UNCHANGED <<run, up>>
    /\ AttemptFrame

\* PingContext returns nil: conf.db is set and the identity query is issued
AttemptPingOk(s, k) ==
    /\ AttemptAt(s, k, "ping")
    /\ att' = [att EXCEPT ![s][k].pc = "probe", ![s][k].db = "open", ![s][k].ctx = gctx]
    /\ UNCHANGED <<run, up>>
    /\ AttemptFrame

\* PingContext returns an error: the handle is closed, conf.db stays nil
AttemptPingFails(s, k) ==
    /\ AttemptAt(s, k, "ping")
    /\ att' = [att EXCEPT ![s][k].pc = "send", ![s][k].outcome = "ping failed",
                          ![s][k].ctx = 0]
    /\ UNCHANGED <<run, up>>
    /\ AttemptFrame

\* the identity query succeeds: the names are taken over if one is unset, up = 1
AttemptProbeOk(s, k) ==
    /\ AttemptAt(s, k, "probe")
    /\ LET conf == att[s][k].conf
           named == IF Len(conf.Database) = 0 \/ Len(conf.Instance) = 0
                    THEN [conf EXCEPT !.Database = ProbeNames(conf).Database,
                                      !.Instance = ProbeNames(conf).Instance]
                    ELSE conf
       IN /\ att' = [att EXCEPT ![s][k].pc = "send", ![s][k].conf = named,
                                ![s][k].outcome = "connected", ![s][k].ctx = 0]
          /\ up' = MapPut(up, UpKey(named), 1)
    /\ UNCHANGED run
    /\ AttemptFrame

\* the identity query fails: the handle is closed but conf.db keeps it, up = 0
AttemptProbeFails(s, k) ==
    /\ AttemptAt(s, k, "probe")
    /\ att' = [att EXCEPT ![s][k].pc = "send", ![s][k].db = "closed",
                          ![s][k].outcome = "probe failed", ![s][k].ctx = 0]
    /\ up' = MapPut(up, UpKey(att[s][k].conf), 0)
    /\ UNCHANGED run
    /\ AttemptFrame

\* whether a send on the outcome channel of scrape s has to wait
SendBlocks(s) == ~run[s].chClosed /\ Len(run[s].ch) >= run[s].ii

\* the deferred send of the outcome; on a closed channel it panics and recovers
AttemptSend(s, k) ==
    /\ AttemptAt(s, k, "send")
    /\ ~SendBlocks(s)
    /\ att' = [att EXCEPT ![s][k].pc = "done"]
    /\ run' = IF run[s].chClosed THEN run
              ELSE [run EXCEPT ![s].ch =
                       Append(@, [k |-> k, conf |-> att[s][k].conf, db |-> att[s][k].db])]
    /\ UNCHANGED up
    /\ AttemptFrame

\* the context of scrape s reaches its deadline
DeadlineFires(s) ==
    /\ alive
    /\ run[s].pc \in {"connect", "consume", "join"}
    /\ ~run[s].ctxDone
    /\ run' = [run EXCEPT ![s].ctxDone = TRUE, ![s].fired = TRUE]
    /\ UNCHANGED <<alive, config, loaded, custom, up, usedTimes, builtin, totalScrapes,
                   errorGauge, gctx, vflags, att, task, reloadPc, reloadReply>>
    /\ UNCHANGED otherVars

\* mutant of StartsTask: a task is started for every received outcome
StartsTaskAlways(conn1) == TRUE

\* whether Collect starts a collection task for a received outcome
StartsTask(conn1) == conn1.db # "nil"

\* the select of ForLoop receives an outcome
Consume(s) ==
    /\ alive
    /\ run[s].pc = "consume"
    /\ run[s].ch # <<>>
    /\ LET conn1 == Head(run[s].ch)
       IN /\ usedTimes' = usedTimes \cup
                 {TimingKey(conn1.conf, IF StartsTask(conn1) THEN "connect" ELSE "connectfailed")}
          /\ task' = IF StartsTask(conn1)
                     THEN [task EXCEPT ![s][conn1.k] =
                             [pc |-> "start", pos |-> 0, qi |-> 1, conn |-> conn1.conf,
                              db |-> conn1.db, ran |-> {}, failed |-> {}, ctx |-> 0]]
                     ELSE task
          /\ run' = [run EXCEPT ![s].ch = Tail(@),
                                ![s].i = @ + 1,
                                ![s].wg = IF StartsTask(conn1) THEN @ + 1 ELSE @,
                                ![s].consumed = @ \cup {conn1.k},
                                ![s].pc = IF run[s].i + 1 = run[s].ii THEN "join" ELSE "consume"]
    /\ UNCHANGED <<alive, config, loaded, custom, up, builtin, totalScrapes, errorGauge,
                   gctx, vflags, att, reloadPc, reloadReply>>
    /\ UNCHANGED otherVars

\* the select of ForLoop takes ctx.Done(): break ForLoop
ConsumeTimeout(s) ==
    /\ alive
    /\ run[s].pc = "consume"
    /\ run[s].ctxDone
    /\ run' = [run EXCEPT ![s].pc = "join"]
    /\ UNCHANGED <<alive, config, loaded, custom, up, usedTimes, builtin, totalScrapes,
                   errorGauge, gctx, vflags, att, task, reloadPc, reloadReply>>
    /\ UNCHANGED otherVars

TaskFrame ==
    /\ UNCHANGED <<alive, config, loaded, up, totalScrapes, errorGauge, gctx, vflags,
                   att, reloadPc, reloadReply>>
    /\ UNCHANGED otherVars

\* the task of target k of scrape s waits for the database call of collector c
TaskAt(s, k, c) ==
    /\ alive
    /\ k \in DOMAIN task[s]
    /\ task[s][k].pc = "run"
    /\ Pipeline[task[s][k].pos] = c

BuiltinCollectors == {Pipeline[n] : n \in 1..Len(Pipeline)} \ {"ScrapeCustomQueries"}

\* whether the collector at position p issues a database call for conn
IssuesCall(conn, p, flags) ==
    /\ CollectorEnabled(Pipeline[p], flags)
    /\ Pipeline[p] = "ScrapeCustomQueries" => Len(conn.Queries) > 0

\* the first position from on at which the task blocks in a database call;
\* Len(Pipeline) + 1 if it runs through to its end
NextStop(conn, from, flags) ==
    IF \E p \in from..Len(Pipeline) : IssuesCall(conn, p, flags)
    THEN CHOOSE p \in from..Len(Pipeline) :
            /\ IssuesCall(conn, p, flags)
            /\ \A q \in from..(p - 1) : ~IssuesCall(conn, q, flags)
    ELSE Len(Pipeline) + 1

\* the task t runs on from position from without blocking: it writes the
\* timing of every block it leaves and stops in its next database call, or
\* closes its handle and calls wg.Done()
Proceed(t, from, flags) ==
    LET p == NextStop(t.conn, from, flags)
        left == { q \in 1..(p - 1) : q >= from - 1 /\ TimingColumn(q) # "" }
        ran == IF p > Len(Pipeline) THEN t.ran ELSE t.ran \cup {Pipeline[p]}
    IN [task |-> IF p > Len(Pipeline)
                 THEN [t EXCEPT !.pc = "final", !.pos = p, !.db = "nil", !.ctx = 0]
                 ELSE [t EXCEPT !.pc = "run", !.pos = p, !.qi = 1, !.ran = ran,
                                !.ctx = gctx],
        done |-> p > Len(Pipeline),
        timings |-> { TimingKey(t.conn, TimingColumn(q)) : q \in left }]

\* the task, being t, takes over what Proceed gives, having written the
\* built-in series wb and the custom series wc
ProceedsFrom(s, k, t, from, wb, wc) ==
    LET n == Proceed(t, from, vflags)
    IN /\ task' = [task EXCEPT ![s][k] = n.task]
       /\ usedTimes' = usedTimes \cup n.timings
       /\ run' = [run EXCEPT ![s].wg = IF n.done THEN @ - 1 ELSE @,
                             ![s].wroteBuiltin = @ \cup wb,
                             ![s].wroteCustom = @ \cup wc]

ProceedsWriting(s, k, from, wb, wc) == ProceedsFrom(s, k, task[s][k], from, wb, wc)

Proceeds(s, k, from) == ProceedsWriting(s, k, from, {}, {})

\* the task goroutine starts running
TaskStart(s, k) ==
    /\ alive
    /\ k \in DOMAIN task[s]
    /\ task[s][k].pc = "start"
    /\ Proceeds(s, k, 1)
    /\ UNCHANGED <<custom, builtin>>
    /\ TaskFrame

\* a built-in collector's query succeeds: it writes its series
CollectorRuns(s, k) ==
    /\ \E c \in BuiltinCollectors :
        /\ TaskAt(s, k, c)
        /\ LET series == [fam |-> c, database |-> task[s][k].conn.Database,
                          dbinstance |-> task[s][k].conn.Instance]
           IN /\ builtin' = builtin \cup {series}
              /\ ProceedsWriting(s, k, task[s][k].pos + 1, {series}, {})
    /\ task[s][k].db = "open"
    /\ UNCHANGED custom
    /\ TaskFrame

\* mutant of CollectorFails: the task returns when a collector fails
CollectorFailsEndsTask(s, k) ==
    /\ \E c \in BuiltinCollectors :
        /\ TaskAt(s, k, c)
        /\ ProceedsFrom(s, k, [task[s][k] EXCEPT !.failed = @ \cup {c}],
                        Len(Pipeline) + 1, {}, {})
    /\ UNCHANGED <<custom, builtin>>
    /\ TaskFrame

\* a built-in collector's query fails (it always does on a closed handle):
\* the collector returns without writing
CollectorFails(s, k) ==
    /\ \E c \in BuiltinCollectors :
        /\ TaskAt(s, k, c)
        /\ ProceedsFrom(s, k, [task[s][k] EXCEPT !.failed = @ \cup {c}],
                        task[s][k].pos + 1, {}, {})
    /\ UNCHANGED <<custom, builtin>>
    /\ TaskFrame

\* the series one iteration of the loop over conn.Queries sets in the
\* family of query
SeriesWritten(cmap, conn, query, res) ==
    IF query.Name \notin DOMAIN cmap THEN {}
    ELSE LET set == CustomQuery(ResetCustom(cmap), conn, query, res).custom[query.Name].series
         IN { [name |-> query.Name, id |-> id, value |-> set[id]] : id \in DOMAIN set }

\* ScrapeCustomQueries inside a task: the query of the spec it is at is
\* answered by res; it goes on with the next spec or returns
TaskCustomQuery(s, k, res) ==
    /\ TaskAt(s, k, "ScrapeCustomQueries")
    /\ LET t == task[s][k]
           q == t.conn.Queries[t.qi]
           r == CustomQuery(custom, t.conn, q, res)
           wc == SeriesWritten(custom, t.conn, q, res)
       IN /\ custom' = r.custom
          /\ IF r.ctl = "next" /\ t.qi < Len(t.conn.Queries)
             THEN /\ task' = [task EXCEPT ![s][k].qi = @ + 1, ![s][k].ctx = gctx]
                  /\ run' = [run EXCEPT ![s].wroteCustom = @ \cup wc]
                  /\ UNCHANGED usedTimes
             ELSE ProceedsWriting(s, k, t.pos + 1, {}, wc)
    /\ UNCHANGED builtin
    /\ TaskFrame

\* a custom spec's query succeeds and its rows are turned into series
CustomQueryRuns(s, k) ==
    /\ k \in DOMAIN task[s]
    /\ task[s][k].db = "open"
    /\ TaskCustomQuery(s, k, RowsAnswer(<<Row1>>, 0))

\* a custom spec's query fails (it always does on a closed handle)
CustomQueryFails(s, k) == TaskCustomQuery(s, k, ErrAnswer)

\* the rest of the task's deferred function, after wg.Done(): the
\* scrape_total timing
TaskFinal(s, k) ==
    /\ alive
    /\ k \in DOMAIN task[s]
    /\ task[s][k].pc = "final"
    /\ task' = [task EXCEPT ![s][k].pc = "done"]
    /\ usedTimes' = usedTimes \cup {TimingKey(task[s][k].conn, "scrape_total")}
    /\ UNCHANGED <<custom, builtin, run>>
    /\ TaskFrame

\* whether wg.Wait() returns
JoinPasses(s) == run[s].wg = 0

\* what Collect sends to the registry: the built-in families its flags
\* enable, every registered custom family, and used_times
Render ==
    [builtin |-> {x \in builtin : CollectorEnabled(x.fam, vflags)},
     custom |-> [n \in DOMAIN custom |-> custom[n].series],
     usedTimes |-> usedTimes]

\* wg.Wait() returns; Collect renders and returns: the channel is closed, the
\* context cancelled and the error gauge set from err, which is never assigned
WaitAndRender(s) ==
    /\ alive
    /\ run[s].pc = "join"
    /\ JoinPasses(s)
    /\ run' = [run EXCEPT ![s].pc = "returned", ![s].rendered = Render,
                          ![s].chClosed = TRUE, ![s].ctxDone = TRUE]
    /\ errorGauge' = 0
    /\ UNCHANGED <<alive, config, loaded, custom, up, usedTimes, builtin, totalScrapes,
                   gctx, vflags, att, task, reloadPc, reloadReply>>
    /\ UNCHANGED otherVars

\* the target list the configuration file holds when a reload reads it
FileConfigs == {ConfigNew}

\* a loadConfig that adds the targets it read to the active list
loadConfigAppends(cfgs) ==
    /\ config' = config \o cfgs
    /\ loaded' = Append(loaded, cfgs)

\* loadConfig has read and parsed cfgs: it installs it under cfgLok
loadConfig(cfgs) ==
    /\ config' = cfgs
    /\ loaded' = Append(loaded, cfgs)

\* /reloadConfig: loadConfig succeeds (a reload of an unchanged file is left out)
ReloadLoads(cfgs) ==
    /\ alive
    /\ reloadPc = "idle"
    /\ config # cfgs
    /\ loadConfig(cfgs)
    /\ reloadPc' = "loaded"
    /\ UNCHANGED <<alive, custom, up, usedTimes, builtin, totalScrapes, errorGauge, gctx,
                   vflags, run, att, task, reloadReply>>
    /\ UNCHANGED otherVars

\* /reloadConfig after a successful load: addCustomsql, then the reply
ReloadAddsCustom ==
    /\ alive
    /\ reloadPc = "loaded"
    /\ custom' = addCustomsql(custom, config)
    /\ reloadPc' = "idle"
    /\ reloadReply' = "config"
    /\ UNCHANGED <<alive, config, loaded, up, usedTimes, builtin, totalScrapes, errorGauge,
                   gctx, vflags, run, att, task>>
    /\ UNCHANGED otherVars

\* /reloadConfig: the file cannot be read or parsed; loadConfig calls
\* log.Fatalf, which ends the process before anything is answered: its
\* goroutines and everything it held in memory are gone
ReloadFails ==
    /\ alive
    /\ reloadPc = "idle"
    /\ alive' = FALSE
    /\ reloadReply' = "no reply"
    /\ config' = <<>>
    /\ loaded' = <<>>
    /\ custom' = EmptyMap
    /\ up' = EmptyMap
    /\ usedTimes' = {}
    /\ builtin' = {}
    /\ run' = [s \in Scrapes |-> IdleRun]
    /\ att' = [s \in Scrapes |-> <<>>]
    /\ task' = [s \in Scrapes |-> <<>>]
    /\ reloadPc' = "failed"
    /\ UNCHANGED <<totalScrapes, errorGauge, gctx, vflags>>
    /\ UNCHANGED otherVars

\* addCustomsql is about to assign to the map e.custom
WritesRegistry ==
    /\ alive
    /\ reloadPc = "loaded"
    /\ \E n \in 1..Len(config) : config[n].Queries # <<>>

\* whether answer res takes the engine to e.custom[query.Name] for query: a
\* scanned row has a float64 metric cell and every label column resolves
ReachesRegistry(query, res) ==
    /\ ~res.err
    /\ 1 \in ScannedRows(res)
    /\ \E m \in 1..Len(query.Metrics) :
        /\ ColumnIndex(query.Metrics[m], res.cols) # 0
        /\ res.rows[1][ColumnIndex(query.Metrics[m], res.cols)].t = "float64"
    /\ LabelsResolve(query, res.cols)

\* the task of target k of scrape s is about to index e.custom, without a lock
ReadsRegistry(s, k) ==
    /\ TaskAt(s, k, "ScrapeCustomQueries")
    /\ task[s][k].db = "open"
    /\ ReachesRegistry(task[s][k].conn.Queries[task[s][k].qi], RowsAnswer(<<Row1>>, 0))

\* Collect of scrape s is about to range over e.custom, without a lock
RendersRegistry(s) ==
    /\ alive
    /\ run[s].pc = "join"
    /\ JoinPasses(s)

\* an assignment to e.custom meets a read of it: besides the interleavings
\* of the two, the runtime may end the process (fatal error: concurrent map
\* read and map write)
RegistryRace ==
    /\ WritesRegistry
    /\ \E s \in Scrapes :
        \/ RendersRegistry(s)
        \/ \E k \in DOMAIN task[s] : ReadsRegistry(s, k)
    /\ alive' = FALSE
    /\ reloadPc' = "fatal"
    /\ reloadReply' = "no reply"
    /\ config' = <<>>
    /\ loaded' = <<>>
    /\ custom' = EmptyMap
    /\ up' = EmptyMap
    /\ usedTimes' = {}
    /\ builtin' = {}
    /\ run' = [s \in Scrapes |-> IdleRun]
    /\ att' = [s \in Scrapes |-> <<>>]
    /\ task' = [s \in Scrapes |-> <<>>]
    /\ UNCHANGED <<totalScrapes, errorGauge, gctx, vflags>>
    /\ UNCHANGED otherVars

Init ==
    /\ ScrapeInitWith(ConfigOld)
    /\ cqConn = ConfigOld[1]
    /\ cqRows = <<>>
    /\ cqIdx = 1
    /\ cqPc = "idle"
    /\ cqAnswers = <<>>
    /\ cqWarned = <<>>

Next ==
    \/ \E s \in Scrapes, flags \in RequestFlags : Handler(s, flags)
    \/ \E s \in Scrapes : Connect(s)
    \/ \E s \in Scrapes : \E k \in DOMAIN att[s] : AttemptStart(s, k)
    \/ \E s \in Scrapes : \E k \in DOMAIN att[s] : AttemptOpenFails(s, k)
    \/ \E s \in Scrapes : \E k \in DOMAIN att[s] : AttemptPingOk(s, k)
    \/ \E s \in Scrapes : \E k \in DOMAIN att[s] : AttemptPingFails(s, k)
    \/ \E s \in Scrapes : \E k \in DOMAIN att[s] : AttemptProbeOk(s, k)
    \/ \E s \in Scrapes : \E k \in DOMAIN att[s] : AttemptProbeFails(s, k)
    \/ \E s \in Scrapes : \E k \in DOMAIN att[s] : AttemptSend(s, k)
    \/ \E s \in Scrapes : DeadlineFires(s)
    \/ \E s \in Scrapes : Consume(s)
    \/ \E s \in Scrapes : ConsumeTimeout(s)
    \/ \E s \in Scrapes : \E k \in DOMAIN task[s] : TaskStart(s, k)
    \/ \E s \in Scrapes : \E k \in DOMAIN task[s] : CollectorRuns(s, k)
    \/ \E s \in Scrapes : \E k \in DOMAIN task[s] : CollectorFails(s, k)
    \/ \E s \in Scrapes : \E k \in DOMAIN task[s] : CustomQueryRuns(s, k)
    \/ \E s \in Scrapes : \E k \in DOMAIN task[s] : CustomQueryFails(s, k)
    \/ \E s \in Scrapes : \E k \in DOMAIN task[s] : TaskFinal(s, k)
    \/ \E s \in Scrapes : WaitAndRender(s)
    \/ \E cfgs \in FileConfigs : ReloadLoads(cfgs)
    \/ ReloadAddsCustom
    \/ ReloadFails
    \/ RegistryRace

Spec == Init /\ [][Next]_vars

\* a step of a scrape in flight: of Collect, of an attempt, of a task, or the
\* timer of its context
ScrapeStep ==
    \E s \in Scrapes :
        \/ Connect(s) \/ DeadlineFires(s) \/ Consume(s) \/ ConsumeTimeout(s)
        \/ WaitAndRender(s)
        \/ \E k \in DOMAIN att[s] :
              \/ AttemptStart(s, k) \/ AttemptPingOk(s, k) \/ AttemptPingFails(s, k)
              \/ AttemptProbeOk(s, k) \/ AttemptProbeFails(s, k) \/ AttemptSend(s, k)
        \/ \E k \in DOMAIN task[s] :
              \/ TaskStart(s, k) \/ CollectorRuns(s, k) \/ CollectorFails(s, k)
              \/ CustomQueryRuns(s, k) \/ CustomQueryFails(s, k) \/ TaskFinal(s, k)

\* the scheduler is fair to goroutines, timers fire and every database call
\* returns
FairSpec == Spec /\ WF_vars(ScrapeStep)

(***************************************************************************)
(* The timeout endpoints /getTimeout and /setTimeout.  The v parameter is  *)
(* a sequence of one-character strings.                                    *)
(***************************************************************************)
Digits == <<"0", "1", "2", "3", "4", "5", "6", "7", "8", "9">>

\* the characters a v parameter is made of in the model
InputChars == {"0", "1", "2", "4", "5", "+", "-", "."}

InputTexts == SeqsUpTo(InputChars, MaxInputLen)

IsDigit(c) == \E d \in 1..10 : Digits[d] = c

DigitValue(c) == (CHOOSE d \in 1..10 : Digits[d] = c) - 1

RECURSIVE DigitsValue(_, _)
DigitsValue(ds, acc) ==
    IF ds = <<>> THEN acc ELSE DigitsValue(Tail(ds), 10 * acc + DigitValue(Head(ds)))

\* strconv.Atoi: an optional sign, then one or more decimal digits
Atoi(ts) ==
    LET signed == ts # <<>> /\ Head(ts) \in {"+", "-"}
        body == IF signed THEN Tail(ts) ELSE ts
    IN IF body = <<>> \/ \E i \in 1..Len(body) : ~IsDigit(body[i])
       THEN [err |-> TRUE, n |-> 0]
       ELSE [err |-> FALSE,
             n |-> IF signed /\ Head(ts) = "-" THEN 0 - DigitsValue(body, 0)
                   ELSE DigitsValue(body, 0)]

\* mutant of BadTimeout: the bounds themselves are accepted
BadTimeoutClosed(t) == t > 15 \/ t < 1

\* the test /setTimeout rejects a parsed value with
BadTimeout(t) == t >= 15 \/ t <= 1

\* GET /setTimeout?v=ts
SetTimeout(ts) ==
    /\ tmOp' = "set"
    /\ tmInput' = ts
    /\ tmBefore' = timeout
    /\ LET r == Atoi(ts)
       IN IF r.err
          THEN /\ tmReply' = "Err strconv.Atoi"
               /\ timeout' = timeout
          ELSE IF BadTimeout(r.n)
          THEN /\ tmReply' = "bad timeout, 1<v<15"
               /\ timeout' = timeout
          ELSE /\ timeout' = r.n
               /\ tmReply' = "ok, timeout=" \o ToString(r.n)
    /\ UNCHANGED scrapeVars
    /\ UNCHANGED <<custom, engineVars, coerceVars, probe, slotVars>>

\* GET /getTimeout
GetTimeout ==
    /\ tmOp' = "get"
    /\ tmReply' = "current timeout=" \o ToString(timeout)
    /\ UNCHANGED <<timeout, tmInput, tmBefore>>
    /\ UNCHANGED scrapeVars
    /\ UNCHANGED <<custom, engineVars, coerceVars, probe, slotVars>>

TimeoutNext ==
    \/ \E ts \in InputTexts : SetTimeout(ts)
    \/ GetTimeout

TimeoutSpec == Init /\ [][TimeoutNext]_vars

\* values the -timeout flag is started with
FlagTimeouts == {0, 1, 2, 5, 14, 15, 30}

\* the exporter started with a -timeout flag: flag.Int takes any integer
FlagInit ==
    /\ \E t \in FlagTimeouts : ScrapeInitAt(ConfigOld, t)
    /\ cqConn = ConfigOld[1]
    /\ cqRows = <<>>
    /\ cqIdx = 1
    /\ cqPc = "idle"
    /\ cqAnswers = <<>>
    /\ cqWarned = <<>>

FlagSpec == FlagInit /\ [][TimeoutNext]_vars

(***************************************************************************)
(* Label coercion on its own: the engine derives the label text of one     *)
(* scanned cell.                                                           *)
(***************************************************************************)
Hundredths == (0 - 100 * MaxUnits)..(100 * MaxUnits)

\* the cells a label column is scanned into
LabelCells ==
    { Float(n) : n \in Hundredths }
        \cup { FloatE(m, x) : m \in {1, 9}, x \in BigExponents }
        \cup { Str(t) : t \in {"", "x", "5", "5.0"} }
        \cup { Int64(n) : n \in 0 - MaxUnits..MaxUnits }
        \cup { Nil }

Coerce(val) ==
    /\ lvCell' = val
    /\ lvText' = LabelValue(val)
    /\ UNCHANGED scrapeVars
    /\ UNCHANGED <<custom, engineVars, adminVars, probe, slotVars>>

CoerceNext == \E val \in LabelCells : Coerce(val)

CoerceSpec == Init /\ [][CoerceNext]_vars

(***************************************************************************)
(* execConn: the output of the connectivity probe is parsed line by line.  *)
(* A line is [marker, fields, conn, ts]: whether it contains "query time", *)
(* how many fields a split at spaces gives, and its third and fourth       *)
(* field.  Values of used_times are kept in milliseconds.                  *)
(***************************************************************************)
ProbeConn == <<"u", "@", "h1", "/", "s1">>

\* the elapsed-time tokens time.Duration prints, and one that is no duration
ProbeTokens ==
    { <<"5", "m", "s">>, <<"2", "s">>, <<"3", "u", "s">>, <<"1", "m", "2", "s">>, <<"x">> }

ProbeLines ==
    { [marker |-> TRUE, fields |-> 4, conn |-> ProbeConn, ts |-> t] : t \in ProbeTokens }
        \cup { [marker |-> FALSE, fields |-> 4, conn |-> ProbeConn, ts |-> <<"2", "s">>],
               [marker |-> TRUE, fields |-> 5, conn |-> ProbeConn, ts |-> <<"2", "s">>] }

HasSuffix(ts, suffix) ==
    Len(ts) >= Len(suffix) /\ SubSeq(ts, Len(ts) - Len(suffix) + 1, Len(ts)) = suffix

\* strings.Replace(ts, old, "", 1)
RemoveFirst(ts, old) ==
    LET at == {i \in 1..(Len(ts) - Len(old) + 1) : SubSeq(ts, i, i + Len(old) - 1) = old}
    IN IF at = {} THEN ts
       ELSE LET i == CHOOSE j \in at : \A k \in at : j <= k
            IN SubSeq(ts, 1, i - 1) \o SubSeq(ts, i + Len(old), Len(ts))

\* strconv.ParseFloat of a text without sign, point or exponent
ParseFloat(ts) ==
    IF ts = <<>> \/ \E i \in 1..Len(ts) : ~IsDigit(ts[i])
    THEN [err |-> TRUE, n |-> 0]
    ELSE [err |-> FALSE, n |-> DigitsValue(ts, 0)]

\* the label names of used_times
UsedTimesLabels == <<"ipport", "svname", "column">>

\* WithLabelValues panics when the number of values is not that of the labels
WithLabelValuesPanics(labels, values) == Len(values) # Len(labels)

\* what the loop body does with one line: nothing, a value set under
\* "connectsucc", or the sentinel set with two label values
ParseLine(line) ==
    IF ~line.marker \/ line.fields # 4 THEN [panic |-> FALSE, writes |-> {}]
    ELSE LET sp == splitConnStr(line.conn)
             ms == HasSuffix(line.ts, <<"m", "s">>)
             dr == ParseFloat(RemoveFirst(line.ts, IF ms THEN <<"m", "s">> ELSE <<"s">>))
         IN IF dr.err
            THEN [panic |-> WithLabelValuesPanics(UsedTimesLabels, <<sp[1], sp[2]>>),
                  writes |-> IF WithLabelValuesPanics(UsedTimesLabels, <<sp[1], sp[2]>>) THEN {}
                             ELSE {[key |-> <<sp[1], sp[2]>>, ms |-> 999000]}]
            ELSE [panic |-> FALSE,
                  writes |-> {[key |-> <<sp[1], sp[2], "connectsucc">>,
                               ms |-> IF ms THEN dr.n ELSE 1000 * dr.n]}]

ProbeFrame ==
    /\ UNCHANGED <<alive, config, loaded, custom, up, builtin, totalScrapes, errorGauge,
                   gctx, vflags, run, att, task, reloadPc, reloadReply>>
    /\ UNCHANGED <<engineVars, adminVars, coerceVars, slotVars>>

\* execConn has the slot: the probe has run and written out to its stderr
ProbeRuns(out) ==
    /\ probe.pc \in {"idle", "done"}
    /\ probe' = [pc |-> "parse", out |-> out, rest |-> out, writes |-> {}]
    /\ UNCHANGED usedTimes
    /\ ProbeFrame

\* one iteration of the loop over the lines
ProbeParsesLine ==
    /\ probe.pc = "parse"
    /\ probe.rest # <<>>
    /\ LET r == ParseLine(Head(probe.rest))
       IN /\ probe' = [probe EXCEPT !.pc = IF r.panic THEN "panic" ELSE "parse",
                                    !.rest = Tail(@),
                                    !.writes = @ \cup r.writes]
          /\ usedTimes' = usedTimes \cup {w.key : w \in r.writes}
    /\ ProbeFrame

\* the loop is over: execConn returns
ProbeReturns ==
    /\ probe.pc = "parse"
    /\ probe.rest = <<>>
    /\ probe' = [probe EXCEPT !.pc = "done"]
    /\ UNCHANGED usedTimes
    /\ ProbeFrame

ProbeNext ==
    \/ \E out \in SeqsUpTo(ProbeLines, MaxLines) : ProbeRuns(out)
    \/ ProbeParsesLine
    \/ ProbeReturns

ProbeSpec == Init /\ [][ProbeNext]_vars

(***************************************************************************)
(* execConn called concurrently: every call is handed the same channel,    *)
(* backConnStepAll, and takes its one slot with a non-blocking send.  The  *)
(* deferred receive runs when the call returns and when it panics.  The    *)
(* lines of the probe's output are drawn as the loop reaches them.         *)
(***************************************************************************)
Callers == 1..MaxCallers

\* backConnStepAll = make(chan int, 1)
BackConnCap == 1

\* the calls that hold the slot
Holders == { c \in Callers : calls[c].pc \in {"held", "run", "parse"} }

\* mutant of DeferredReceive: no receive is deferred
DeferredReceiveMissing(n) == n

\* defer func() { <-testStepAll }(), on a channel that holds n values
DeferredReceive(n) == n - 1

\* what a call of execConn leaves alone
CallFrame ==
    /\ UNCHANGED <<alive, config, loaded, custom, up, builtin, totalScrapes, errorGauge,
                   gctx, vflags, run, att, task, reloadPc, reloadReply>>
    /\ UNCHANGED <<engineVars, adminVars, coerceVars, probe>>

\* the call leaves execConn, its deferred receive taking a value off the
\* channel (it would wait on an empty one)
CallExits(c, pc, last) ==
    /\ testStepAll > 0
    /\ testStepAll' = DeferredReceive(testStepAll)
    /\ calls' = [calls EXCEPT ![c] = [pc |-> pc, left |-> 0, last |-> last]]

\* the select at the head of execConn: the send goes through if the channel
\* has room, otherwise the default case returns
ExecConnEnters(c) ==
    /\ alive
    /\ calls[c].pc = "idle"
    /\ IF testStepAll < BackConnCap
       THEN /\ testStepAll' = testStepAll + 1
            /\ calls' = [calls EXCEPT ![c].pc = "held"]
       ELSE /\ testStepAll' = testStepAll
            /\ calls' = [calls EXCEPT ![c].last = "busy"]
    /\ UNCHANGED usedTimes
    /\ CallFrame

\* os.Executable() returns an error: the call returns
ExecutableFails(c) ==
    /\ alive
    /\ calls[c].pc = "held"
    /\ CallExits(c, "idle", "noexe")
    /\ UNCHANGED usedTimes
    /\ CallFrame

\* cmd.Run() starts the probe subprocess and waits for it
ProbeLaunched(c) ==
    /\ alive
    /\ calls[c].pc = "held"
    /\ calls' = [calls EXCEPT ![c].pc = "run"]
    /\ UNCHANGED <<testStepAll, usedTimes>>
    /\ CallFrame

\* the subprocess ends, having written n lines to its stderr
ProbeExits(c, n) ==
    /\ alive
    /\ calls[c].pc = "run"
    /\ calls' = [calls EXCEPT ![c].pc = "parse", ![c].left = n]
    /\ UNCHANGED <<testStepAll, usedTimes>>
    /\ CallFrame

\* one iteration of the loop over the lines, the next one being line; a
\* panic of WithLabelValues runs the deferred receive and ends the caller's
\* goroutine
CallParsesLine(c, line) ==
    /\ alive
    /\ calls[c].pc = "parse"
    /\ calls[c].left > 0
    /\ LET r == ParseLine(line)
       IN /\ IF r.panic
             THEN CallExits(c, "panicked", "panic")
             ELSE /\ calls' = [calls EXCEPT ![c].left = @ - 1]
                  /\ testStepAll' = testStepAll
          /\ usedTimes' = usedTimes \cup {w.key : w \in r.writes}
    /\ CallFrame

\* the loop is over: the call returns
CallReturns(c) ==
    /\ alive
    /\ calls[c].pc = "parse"
    /\ calls[c].left = 0
    /\ CallExits(c, "idle", "done")
    /\ UNCHANGED usedTimes
    /\ CallFrame

SlotNext ==
    \/ \E c \in Callers : ExecConnEnters(c)
    \/ \E c \in Callers : ExecutableFails(c)
    \/ \E c \in Callers : ProbeLaunched(c)
    \/ \E c \in Callers : \E n \in 0..MaxLines : ProbeExits(c, n)
    \/ \E c \in Callers : \E line \in ProbeLines : CallParsesLine(c, line)
    \/ \E c \in Callers : CallReturns(c)

SlotSpec == Init /\ [][SlotNext]_vars

(***************************************************************************)
(* Overlapping scrapes: promhttp serves every request in its own           *)
(* goroutine, so Collect of one request may run while Collect of another   *)
(* has not returned.  OverlapSpec lets two requests overlap freely, on one *)
(* target and without reloads; the database answers every query whose      *)
(* context is live, so that a query fails only by cancellation.            *)
(***************************************************************************)
Overlapping == {1, 2}

\* the one target of the overlapping scrapes: the first target, with one spec
ConfigOne == <<[ConfigOld[1] EXCEPT !.Queries = <<QueryA>>]>>

\* a scrape request arrives while others may still be served
HandlerOverlapping(s, flags) ==
    /\ alive
    /\ s \in Overlapping
    /\ s = totalScrapes + 1
    /\ run[s].pc = "idle"
    /\ vflags' = flags
    /\ totalScrapes' = totalScrapes + 1
    /\ gctx' = s
    /\ run' = [run EXCEPT ![s].pc = "connect", ![s].startGen = Len(loaded),
                          ![s].flags = flags]
    /\ UNCHANGED <<alive, config, loaded, custom, up, usedTimes, builtin, errorGauge,
                   att, task, reloadPc, reloadReply>>
    /\ UNCHANGED otherVars

\* the context the call in flight of task k of scrape s was issued under has
\* been cancelled (by the cancel() of the scrape that derived it)
CallCancelled(s, k) ==
    /\ k \in DOMAIN task[s]
    /\ task[s][k].pc = "run"
    /\ task[s][k].ctx \in Overlapping
    /\ run[task[s][k].ctx].ctxDone

\* a built-in collector's query returns the cancellation as its error
CollectorCancelled(s, k) == CallCancelled(s, k) /\ CollectorFails(s, k)

\* a custom spec's query returns the cancellation as its error
CustomQueryCancelled(s, k) == CallCancelled(s, k) /\ CustomQueryFails(s, k)

OverlapInit ==
    /\ ScrapeInitWith(ConfigOne)
    /\ cqConn = ConfigOld[1]
    /\ cqRows = <<>>
    /\ cqIdx = 1
    /\ cqPc = "idle"
    /\ cqAnswers = <<>>
    /\ cqWarned = <<>>

OverlapNext ==
    \/ \E s \in Overlapping, flags \in RequestFlags : HandlerOverlapping(s, flags)
    \/ \E s \in Overlapping : Connect(s)
    \/ \E s \in Overlapping : \E k \in DOMAIN att[s] : AttemptStart(s, k)
    \/ \E s \in Overlapping : \E k \in DOMAIN att[s] : AttemptPingOk(s, k)
    \/ \E s \in Overlapping : \E k \in DOMAIN att[s] : AttemptPingFails(s, k)
    \/ \E s \in Overlapping : \E k \in DOMAIN att[s] : AttemptProbeOk(s, k)
    \/ \E s \in Overlapping : \E k \in DOMAIN att[s] : AttemptSend(s, k)
    \/ \E s \in Overlapping : Consume(s)
    \/ \E s \in Overlapping : \E k \in DOMAIN task[s] : TaskStart(s, k)
    \/ \E s \in Overlapping : \E k \in DOMAIN task[s] : CollectorRuns(s, k)
    \/ \E s \in Overlapping : \E k \in DOMAIN task[s] : CollectorCancelled(s, k)
    \/ \E s \in Overlapping : \E k \in DOMAIN task[s] : CustomQueryRuns(s, k)
    \/ \E s \in Overlapping : \E k \in DOMAIN task[s] : CustomQueryCancelled(s, k)
    \/ \E s \in Overlapping : \E k \in DOMAIN task[s] : TaskFinal(s, k)
    \/ \E s \in Overlapping : WaitAndRender(s)

OverlapSpec == OverlapInit /\ [][OverlapNext]_vars

(***************************************************************************)
(* Claims about the scrape cycle and the reload, checked under Spec.       *)
(***************************************************************************)
\* the outcomes of a connect attempt that failed
FailedOutcomes == {"open failed", "ping failed", "probe failed"}

\* the targets of scrape s a collection task was started for
TaskStarted(s) == {k \in DOMAIN task[s] : task[s][k].pc # "none"}

\* C1 (as claimed): the connect phase of a scrape ends when all N targets of
\* the snapshot have reported or the deadline has fired, and the scrape then
\* goes on with exactly the targets whose outcome was consumed with an open
\* handle.
C1_ConnectPhaseSubset ==
    \A s \in Scrapes :
        run[s].pc = "join" =>
            /\ run[s].i = run[s].ii \/ run[s].fired
            /\ TaskStarted(s) = {k \in run[s].consumed : att[s][k].db = "open"}

\* C2 (as claimed): at the join, once the deadline has fired, the scrape is
\* not held back by a collection task that is still running: it can go on to
\* render.
C2_JoinBoundedByDeadline ==
    \A s \in Scrapes :
        (run[s].pc = "join" /\ run[s].fired) => JoinPasses(s)

\* C3 (as claimed): a target whose connect attempt failed (open, ping or
\* identity query) never has a collector started for it in that scrape.
C3_FailedTargetNoCollector ==
    \A s \in Scrapes : \A k \in DOMAIN att[s] :
        att[s][k].outcome \in FailedOutcomes
            => task[s][k].pc \notin {"run", "final", "done"}

\* C4 (as claimed): once a connect attempt has failed (open, ping or identity
\* query) and reported, the store holds up = 0 for that target and no
\* collection happens for it in that scrape.
C4_FailedTargetReportedDown ==
    \A s \in Scrapes : \A k \in DOMAIN att[s] :
        (att[s][k].pc = "done" /\ att[s][k].outcome \in FailedOutcomes)
            => /\ UpKey(att[s][k].conf) \in DOMAIN up
               /\ up[UpKey(att[s][k].conf)] = 0
               /\ task[s][k].pc = "none"

\* the targets of scrape s that what it rendered holds a fact about
RenderedTargets(s) ==
    {k \in DOMAIN att[s] :
        splitConnStr(att[s][k].conf.Connection)
            \in { <<key[1], key[2]>> : key \in run[s].rendered.usedTimes }}

\* C5 (as claimed): a target whose connect attempt had not reported when the
\* deadline fired appears in what that scrape renders, as a fact recording
\* that it is down.
C5_TimedOutTargetAppearsDown ==
    \A s \in Scrapes : \A k \in DOMAIN att[s] :
        (/\ run[s].pc = "returned"
         /\ run[s].fired
         /\ k \notin run[s].consumed
         /\ att[s][k].pc # "done")
            => k \in RenderedTargets(s)

\* whether descriptor a is a copy of target b of a loaded list (the names may
\* have been discovered since)
SameTarget(a, b) == a.Connection = b.Connection /\ a.Queries = b.Queries

\* C9: a scrape works on one snapshot of the target list, the list in force
\* when Connect ran, which is not older than the list in force when the
\* scrape started: its attempts, its outcomes, its tasks and the timings it
\* writes all belong to the targets of that one list, whatever a reload has
\* installed since.
C9_OneSnapshotPerScrape ==
    \A s \in Scrapes :
        att[s] # <<>> =>
            /\ run[s].startGen <= run[s].snapGen
            /\ run[s].snapGen \in 1..Len(loaded)
            /\ LET snap == loaded[run[s].snapGen]
               IN /\ run[s].ii = Len(snap)
                  /\ DOMAIN att[s] = DOMAIN snap
                  /\ DOMAIN task[s] = DOMAIN snap
                  /\ \A k \in DOMAIN snap :
                        /\ SameTarget(att[s][k].conf, snap[k])
                        /\ SameTarget(task[s][k].conn, snap[k])
                  /\ \A n \in 1..Len(run[s].ch) :
                        /\ run[s].ch[n].k \in DOMAIN snap
                        /\ SameTarget(run[s].ch[n].conf, snap[run[s].ch[n].k])
                  /\ s = totalScrapes =>
                        { <<key[1], key[2]>> : key \in usedTimes }
                            \subseteq { splitConnStr(snap[k].Connection) : k \in DOMAIN snap }

\* C9 witness: a reload has installed another list since the snapshot of a
\* scrape that still collects from a target of the list it replaced.
C9_Witness ==
    \E s \in Scrapes :
        /\ att[s] # <<>>
        /\ run[s].snapGen < Len(loaded)
        /\ config # loaded[run[s].snapGen]
        /\ \E k \in DOMAIN task[s] :
            /\ task[s][k].pc = "run"
            /\ \A n \in 1..Len(config) : ~SameTarget(task[s][k].conn, config[n])

\* C10 (as claimed): after a reload that failed the service runs on, the
\* failure has been reported to the caller, and a target set is still active.
C10_FailedReloadKeepsService ==
    reloadPc = "failed" =>
        /\ alive
        /\ reloadReply = "loadConfig: false"
        /\ config # <<>>

\* C11 (as claimed): a reload is safe while a scrape is in flight: the
\* reload's write to e.custom never meets an unsynchronised read of it by a
\* collection task or by the render step.
C11_NoRegistryRace ==
    ~(/\ WritesRegistry
      /\ \E s \in Scrapes :
            \/ RendersRegistry(s)
            \/ \E k \in DOMAIN task[s] : ReadsRegistry(s, k))

\* C12 (as claimed): a reload while a scrape is between its reset and its
\* render does not tear what it renders: every custom series the scrape
\* wrote, before or after the reload, is in what it renders.
C12_RenderHoldsWrittenSeries ==
    \A s \in Scrapes :
        (run[s].pc = "returned" /\ att[s] # <<>>) =>
            \A w \in run[s].wroteCustom :
                /\ w.name \in DOMAIN run[s].rendered.custom
                /\ w.id \in DOMAIN run[s].rendered.custom[w.name]
                /\ run[s].rendered.custom[w.name][w.id] = w.value

(***************************************************************************)
(* Claims about overlapping scrapes, checked under OverlapSpec.            *)
(***************************************************************************)
\* the custom series the store holds, as [name, id, value]
StoredCustom ==
    UNION { { [name |-> n, id |-> id, value |-> custom[n].series[id]] :
                id \in DOMAIN custom[n].series } : n \in DOMAIN custom }

\* whether scrape s has returned or one of its steps, or of its goroutines,
\* can be taken
CanStep(s) ==
    CASE run[s].pc \in {"idle", "connect"} -> TRUE
      [] run[s].pc = "consume" ->
            \/ run[s].ch # <<>>
            \/ \E k \in DOMAIN att[s] : att[s][k].pc # "done"
      [] run[s].pc = "join" ->
            \/ JoinPasses(s)
            \/ \E k \in DOMAIN task[s] : task[s][k].pc \in {"start", "run"}
      [] OTHER -> run[s].pc = "returned"

\* C13: two overlapping scrapes never block each other for good, and once
\* both have ended every series identity is in the state one of the two runs
\* gave it: a series the store holds was written, with the value it holds,
\* by one of the runs, and a series both runs wrote is held.
C13_OverlapKeepsStoreConsistent ==
    /\ \A s \in Overlapping : CanStep(s)
    /\ (\A s \in Overlapping : Quiet(s)) =>
        /\ \A x \in builtin : \E s \in Overlapping : x \in run[s].wroteBuiltin
        /\ \A w \in StoredCustom : \E s \in Overlapping : w \in run[s].wroteCustom
        /\ \A x \in run[1].wroteBuiltin \cap run[2].wroteBuiltin : x \in builtin
        /\ \A w \in run[1].wroteCustom :
              (\E v \in run[2].wroteCustom : v.name = w.name /\ v.id = w.id)
                  => w.id \in DOMAIN custom[w.name].series

\* C13 witness: both scrapes have ended, both wrote the same custom series,
\* and the reset of the second fell between a write of the first and its
\* render (the first did not render a series it had written).
C13_Witness ==
    /\ \A s \in Overlapping : Quiet(s)
    /\ run[1].wroteCustom # {}
    /\ run[1].wroteCustom = run[2].wroteCustom
    /\ \E w \in run[1].wroteCustom : w.id \notin DOMAIN run[1].rendered.custom[w.name]
    /\ StoredCustom # {}

\* C14 (as claimed): the optional collectors a request's tasks run and the
\* optional families it renders are those its own query parameters (or the
\* start-up flags) enable, whatever other requests are served meanwhile.
C14_FlagsPerRequest ==
    \A s \in Overlapping :
        /\ \A k \in DOMAIN task[s] :
              task[s][k].pc = "run"
                  => CollectorEnabled(Pipeline[task[s][k].pos], run[s].flags)
        /\ run[s].pc = "returned" =>
              \A x \in run[s].rendered.builtin : CollectorEnabled(x.fam, run[s].flags)

(***************************************************************************)
(* Claims about the timeout endpoints, checked under TimeoutSpec.          *)
(***************************************************************************)
RECURSIVE StripLeadingZeros(_)
StripLeadingZeros(ds) ==
    IF Len(ds) > 1 /\ Head(ds) = "0" THEN StripLeadingZeros(Tail(ds)) ELSE ds

\* the decimal digits of v, for 0 <= v < 100
DecimalText(v) ==
    IF v < 10 THEN <<Digits[v + 1]>> ELSE <<Digits[(v \div 10) + 1], Digits[(v % 10) + 1]>>

\* whether text ts is a way of writing the integer v, 0 <= v < 100
Denotes(ts, v) ==
    LET body == IF ts # <<>> /\ Head(ts) = "+" THEN Tail(ts) ELSE ts
    IN body # <<>> /\ StripLeadingZeros(body) = DecimalText(v)

\* C15: a set request changes the budget exactly when its parameter writes an
\* integer v with 1 < v < 15, and then the budget is v; for every other
\* parameter (an integer outside the interval, including 1 and 15, or a text
\* that is no integer) the budget is what it was; a get request answers the
\* budget.
C15_SetTimeoutGuard ==
    /\ timeout \in 2..14
    /\ tmOp = "set" =>
        IF \E v \in 2..14 : Denotes(tmInput, v)
        THEN /\ Denotes(tmInput, timeout)
             /\ tmReply = "ok, timeout=" \o ToString(timeout)
        ELSE /\ timeout = tmBefore
             /\ tmReply \in {"Err strconv.Atoi", "bad timeout, 1<v<15"}
    /\ tmOp = "get" => tmReply = "current timeout=" \o ToString(timeout)

\* C15 witness: the budget was set to 14 and a later request for 15 was
\* rejected, leaving 14.
C15_Witness ==
    /\ tmOp = "set"
    /\ tmInput = <<"1", "5">>
    /\ tmBefore = 14
    /\ timeout = 14
    /\ tmReply = "bad timeout, 1<v<15"

(***************************************************************************)
(* Further claims about the scrape cycle, checked under Spec.              *)
(***************************************************************************)
\* whether a local fault occurred in scrape s: a connect attempt failed or
\* the deadline fired
Faulty(s) ==
    \/ run[s].fired
    \/ \E k \in DOMAIN att[s] : att[s][k].outcome \in FailedOutcomes

\* C16 (as claimed): when the latest scrape has returned, the error gauge is
\* 1 if a fault occurred in it and 0 if none did.
C16_ErrorFlagFaithful ==
    \A s \in Scrapes :
        (s = totalScrapes /\ run[s].pc = "returned")
            => errorGauge = IF Faulty(s) THEN 1 ELSE 0

\* C17 (as claimed): the reset at the start of a scrape's connect phase
\* empties the built-in and custom series and leaves the scrape count, the
\* error gauge and the per-phase timings in used_times as they were.
C17_ResetKeepsLifetimeState ==
    [][\A s \in Scrapes :
          (run[s].pc = "connect" /\ run'[s].pc \in {"consume", "join"}) =>
              /\ builtin' = {}
              /\ custom' = ResetCustom(custom)
              /\ totalScrapes' = totalScrapes
              /\ errorGauge' = errorGauge
              /\ usedTimes' = usedTimes]_vars

\* the targets of scrape s whose connection descriptor has length zero
Dummies(s) == {k \in DOMAIN att[s] : Len(att[s][k].conf.Connection) = 0}

\* C18: for a target with a zero-length connection descriptor the attempt
\* never opens, pings or probes, its handle stays nil and it is no failed
\* attempt; once the attempt has run, the store holds up = 0 under the
\* configured database and instance; no collection task is started for it;
\* and the error gauge is 0 when its scrape has returned.
C18_DummyTargetDown ==
    \A s \in Scrapes : \A k \in Dummies(s) :
        /\ att[s][k].pc \in {"start", "send", "done"}
        /\ att[s][k].db = "nil"
        /\ att[s][k].outcome \in {"none", "dummy"}
        /\ att[s][k].pc # "start" =>
            /\ att[s][k].outcome = "dummy"
            /\ UpKey(att[s][k].conf) \in DOMAIN up
            /\ up[UpKey(att[s][k].conf)] = 0
        /\ task[s][k].pc = "none"
        /\ (s = totalScrapes /\ run[s].pc = "returned") => errorGauge = 0

\* C18 witness: a scrape has returned after it received the outcome of a
\* target with a zero-length descriptor next to a task it ran for another
\* target.
C18_Witness ==
    \E s \in Scrapes :
        /\ run[s].pc = "returned"
        /\ \E k \in Dummies(s) : att[s][k].pc = "done" /\ k \in run[s].consumed
        /\ \E k \in DOMAIN task[s] : task[s][k].pc = "done"


(***************************************************************************)
(* Claims about label coercion, checked under CoerceSpec.                  *)
(***************************************************************************)
\* the digits of the magnitude of a float64 cell below ten: units, tenths
\* and hundredths
DigitsOf(val) ==
    LET a == IF val.n < 0 THEN 0 - val.n ELSE val.n
    IN [sign |-> IF val.n < 0 THEN "-" ELSE "",
        u |-> a \div 100, t |-> (a \div 10) % 10, h |-> a % 10]

\* the plain integer text of a float64 cell whose value is an integer
PlainText(val) ==
    LET d == DigitsOf(val)
    IN IF val.x = 0 THEN d.sign \o ToString(d.u)
       ELSE d.sign \o ToString(d.u) \o Zeros(val.x)

\* the normalised scientific notation of a float64 cell: one digit other
\* than zero before the point, the shortest fraction, a signed exponent of
\* two digits or more
SciText(val) ==
    LET d == DigitsOf(val)
        frac(p, q) == IF q # 0 THEN "." \o ToString(p) \o ToString(q)
                      ELSE IF p # 0 THEN "." \o ToString(p) ELSE ""
    IN d.sign \o
       (IF val.x # 0 THEN ToString(d.u) \o frac(d.t, d.h) \o "e+" \o ToString(val.x)
        ELSE IF d.u # 0 THEN ToString(d.u) \o frac(d.t, d.h) \o "e+00"
        ELSE IF d.t # 0 THEN ToString(d.t) \o frac(d.h, 0) \o "e-01"
        ELSE ToString(d.h) \o "e-02")

\* whether the value of a float64 cell is an integer
Integral(val) == val.x # 0 \/ val.n % 100 = 0

\* C19 (as claimed): a string cell gives its text; a float64 cell whose
\* value is an integer gives the plain integer text (5.0 gives "5"); any
\* other float64 cell gives the normalised scientific notation (5.25 gives
\* "5.25e+00").
C19_CoercesStringAndNumeric ==
    /\ lvCell.t = "string" => lvText = lvCell.s
    /\ lvCell.t = "float64" =>
           lvText = IF Integral(lvCell) THEN PlainText(lvCell) ELSE SciText(lvCell)
    /\ lvCell = Float(500) => lvText = "5"
    /\ lvCell = Float(525) => lvText = "5.25e+00"

\* What holds instead: as claimed for strings and for the float64 cells
\* within the int64 range; a float64 cell beyond that range gives the
\* scientific notation also when its value is an integer.
CoercesStringAndFloatInRange ==
    /\ lvCell.t = "string" => lvText = lvCell.s
    /\ lvCell.t = "float64" =>
           lvText = IF Integral(lvCell) /\ lvCell.x = 0 THEN PlainText(lvCell)
                    ELSE SciText(lvCell)
    /\ lvCell = Float(500) => lvText = "5"
    /\ lvCell = Float(525) => lvText = "5.25e+00"


\* fmt.Sprintf("%v", v) of a cell that is neither a string nor a float64
GenericText(val) == IF val.t = "int64" THEN ToString(val.n) ELSE "<nil>"

\* C20 (as claimed): a cell that is neither a string nor a float64 gives the
\* generic text of its own value, so that two such cells of different
\* values give different texts.
C20_OtherTypesKeepTheirValue ==
    lvCell.t \notin {"string", "float64"} => lvText = GenericText(lvCell)

\* What holds instead: every such cell gives "0", the text of the zero
\* float64 the failed type assertion left behind.
OtherTypesGiveZero ==
    lvCell.t \notin {"string", "float64"} => lvText = "0"

(***************************************************************************)
(* Claims about the connectivity probe, checked under ProbeSpec.           *)
(***************************************************************************)
\* C21 (as claimed): when execConn is through with the output, a line
\* without the marker has set nothing, a marker line with a malformed
\* elapsed time has set the sentinel 999 for its descriptor, and every
\* marker line with a well-formed elapsed time, also after a malformed one,
\* has set that time; the parse is never aborted.
C21_MalformedTokenDoesNotAbort ==
    /\ probe.pc # "panic"
    /\ probe.pc = "done" =>
        LET marked == {i \in DOMAIN probe.out : probe.out[i].marker /\ probe.out[i].fields = 4}
            value(i) ==
                LET ts == probe.out[i].ts
                IN IF ts = <<"5", "m", "s">> THEN 5
                   ELSE IF ts = <<"2", "s">> THEN 2000
                   ELSE 999000
        IN /\ \A i \in marked :
                \E w \in probe.writes :
                    /\ SubSeq(w.key, 1, 2) = splitConnStr(probe.out[i].conn)
                    /\ w.ms = value(i)
           /\ marked = {} => probe.writes = {}

(***************************************************************************)
(* Claims about the collection task, checked under Spec.                   *)
(***************************************************************************)
\* the positions of the pipeline after collector c at which the task of
\* target k of scrape s issues a database call
CallsAfter(s, k, c) ==
    {p \in 1..Len(Pipeline) :
        /\ \E q \in 1..(p - 1) : Pipeline[q] = c
        /\ IssuesCall(task[s][k].conn, p, run[s].flags)}

\* C22: after a built-in collector of a task has failed, the task holds no
\* series of that collector's family, it has gone on to every enabled
\* collector after the failed one that it has passed, and when it is
\* through it has run every one of them, the custom query engine included.
C22_CollectorFailureIsolated ==
    \A s \in Scrapes : \A k \in DOMAIN task[s] : \A c \in task[s][k].failed :
        LET t == task[s][k]
        IN /\ [fam |-> c, database |-> t.conn.Database, dbinstance |-> t.conn.Instance]
                  \notin run[s].wroteBuiltin
           /\ t.pc \in {"run", "final", "done"}
           /\ \A p \in CallsAfter(s, k, c) : p <= t.pos => Pipeline[p] \in t.ran
           /\ t.pc \in {"final", "done"} =>
                  \A p \in CallsAfter(s, k, c) : Pipeline[p] \in t.ran

\* C22 witness: a scrape has returned one of whose tasks saw a collector
\* fail and then ran the custom query engine and a later built-in collector,
\* which wrote its series.
C22_Witness ==
    \E s \in Scrapes : \E k \in DOMAIN task[s] : \E c \in task[s][k].failed :
        /\ run[s].pc = "returned"
        /\ task[s][k].pc = "done"
        /\ "ScrapeCustomQueries" \in {Pipeline[p] : p \in CallsAfter(s, k, c)}
        /\ \E x \in run[s].wroteBuiltin :
              /\ x.fam \in {Pipeline[p] : p \in CallsAfter(s, k, c)}
              /\ x.database = task[s][k].conn.Database
              /\ x.dbinstance = task[s][k].conn.Instance


\* C23: an attempt that has reached its send finds room in the outcome
\* channel or finds the channel closed, in which case the panic of the send
\* is recovered: it is never left waiting; and the channel never holds more
\* outcomes than the scrape has targets.
C23_SendNeverBlocks ==
    \A s \in Scrapes :
        /\ Len(run[s].ch) <= Len(att[s])
        /\ \A k \in DOMAIN att[s] : att[s][k].pc = "send" => ~SendBlocks(s)

\* C23 witness: the deadline has fired and Collect has returned and closed
\* the channel while one attempt had sent its outcome unread and another
\* is at its send.
C23_Witness ==
    \E s \in Scrapes :
        /\ run[s].chClosed
        /\ run[s].fired
        /\ \E k \in DOMAIN att[s] : att[s][k].pc = "send"
        /\ \E k \in DOMAIN att[s] : att[s][k].pc = "done" /\ k \notin run[s].consumed

\* whether the handle opened for target k of scrape s is open: the task's
\* view once a task took the outcome over, the attempt's before
HandleOpen(s, k) ==
    IF task[s][k].pc # "none" THEN task[s][k].db = "open" ELSE att[s][k].db = "open"

\* scrape s has returned and nothing of it is running any more
Over(s) ==
    /\ run[s].pc = "returned"
    /\ att[s] # <<>>
    /\ \A k \in DOMAIN att[s] : att[s][k].pc = "done"
    /\ \A k \in DOMAIN task[s] : task[s][k].pc \in {"none", "done"}

\* C24 (as claimed): once a scrape has returned and all its attempts and
\* tasks have finished, no handle opened for it is open.
C24_NoHandleOutlivesScrape ==
    \A s \in Scrapes : Over(s) => \A k \in DOMAIN att[s] : ~HandleOpen(s, k)


(***************************************************************************)
(* Further claims about overlapping scrapes, checked under OverlapSpec.    *)
(***************************************************************************)
\* the contexts the database calls in flight for scrape s were issued under
CallContexts(s) ==
    {att[s][k].ctx : k \in {j \in DOMAIN att[s] : att[s][j].pc \in {"ping", "probe"}}}
        \cup {task[s][k].ctx : k \in {j \in DOMAIN task[s] : task[s][j].pc = "run"}}

\* C25 (as claimed): every call in flight for a scrape was issued under the
\* context that scrape derived, and that context is not cancelled by
\* another scrape returning.
C25_OwnContextOnly ==
    \A s \in Overlapping : \A c \in CallContexts(s) :
        /\ c = s
        /\ run[c].ctxDone => run[s].ctxDone


(***************************************************************************)
(* Claims about abandoned connect attempts, checked under Spec.            *)
(***************************************************************************)
\* the attempt for target k of scrape s is still running although the
\* scrape has stopped waiting for outcomes
Abandoned(s, k) ==
    /\ run[s].fired
    /\ run[s].pc \in {"join", "returned"}
    /\ k \in DOMAIN att[s]
    /\ k \notin run[s].consumed
    /\ att[s][k].pc \in {"start", "ping", "probe"}

\* C26 (as claimed): a step of an abandoned attempt leaves the up family as
\* it is.
C26_AbandonedAttemptWritesNothing ==
    [][\A s \in Scrapes : \A k \in DOMAIN att[s] :
          (/\ Abandoned(s, k)
           /\ k \in DOMAIN att'[s]
           /\ att'[s][k].pc # att[s][k].pc) => up' = up]_vars


\* C27 (as claimed): what a scrape renders holds the scrape_total timing of
\* every collection task the scrape started.
C27_RenderAfterAllWrites ==
    \A s \in Scrapes :
        (run[s].pc = "returned" /\ att[s] # <<>>) =>
            \A k \in TaskStarted(s) :
                TimingKey(task[s][k].conn, "scrape_total") \in run[s].rendered.usedTimes


(***************************************************************************)
(* Claims about the timeout budget, checked under FlagSpec.                *)
(***************************************************************************)
\* C28 (as claimed): the timeout budget lies strictly between 1 and 15 in
\* every state, from start-up on.
C28_BudgetAlwaysInRange == timeout > 1 /\ timeout < 15

\* What holds instead: the budget is the start-up value or a value the
\* setter accepted, and only the latter is known to lie between 1 and 15.
BudgetFlagOrInRange == timeout \in FlagTimeouts \/ (timeout > 1 /\ timeout < 15)


(***************************************************************************)
(* Termination of a scrape, checked under FairSpec.                        *)
(***************************************************************************)
\* C29 (as claimed): every scrape that has been counted eventually renders
\* and returns.
C29_EveryScrapeReturns ==
    \A s \in Scrapes : (run[s].pc = "connect") ~> (run[s].pc = "returned")

(***************************************************************************)
(* Claims about the registry of custom families, checked under Spec.       *)
(***************************************************************************)
\* C30 (as claimed): whenever a task is in ScrapeCustomQueries, about to
\* handle the rows of a spec of its target, a family is registered under
\* that spec's name.
C30_FamilyRegisteredBeforeWrite ==
    \A s \in Scrapes : \A k \in DOMAIN task[s] :
        (task[s][k].pc = "run" /\ Pipeline[task[s][k].pos] = "ScrapeCustomQueries")
            => task[s][k].conn.Queries[task[s][k].qi].Name \in DOMAIN custom


(***************************************************************************)
(* A further claim about the custom query engine, checked under            *)
(* EngineSpec.                                                             *)
(***************************************************************************)
\* metric column k of spec q matches a result column and its cell in row
\* vals is a float64
FloatCell(q, k, cols, vals) ==
    /\ Matches(q.Metrics[k], cols)
    /\ MatchedCell(q.Metrics[k], cols, vals).t = "float64"

\* metric column k of spec q matches a result column and its cell in row
\* vals is not a float64
OtherCell(q, k, cols, vals) ==
    /\ Matches(q.Metrics[k], cols)
    /\ MatchedCell(q.Metrics[k], cols, vals).t # "float64"

\* C31: a declared metric column that matches a result column but whose
\* scanned cell is not a float64 emits no series for that metric in that
\* row; it does not trigger label resolution, so the missing-label warning is
\* logged only at a row that has a float64 metric cell (never, when no metric
\* value is a float64); and it aborts neither the row, nor the query, nor
\* the sibling metrics: with labels that resolve, every float64 metric cell
\* of every scanned row still gives its series, and the loop goes on with
\* the next spec.
C31_NonFloatMetricSkipped ==
    cqPc = "returned" =>
        \A i \in Executed :
            LET q == cqConn.Queries[i]
                res == cqAnswers[i]
                ks == 1..Len(q.Metrics)
                rs == ScannedRows(res)
                floatRows == { r \in rs : \E k \in ks : FloatCell(q, k, res.cols, res.rows[r]) }
            IN ~res.err =>
                /\ \A r \in rs : \A k \in ks :
                      OtherCell(q, k, res.cols, res.rows[r])
                          => <<q.Metrics[k], ToString(r)>> \notin EmittedPairs(custom[q.Name])
                /\ cqWarned[i] # 0 => cqWarned[i] \in floatRows
                /\ floatRows = {} => cqWarned[i] = 0
                /\ LabelsResolve(q, res.cols) =>
                      \A r \in rs : \A k \in ks :
                          FloatCell(q, k, res.cols, res.rows[r])
                              => \E id \in DOMAIN custom[q.Name].series :
                                    /\ id.metric = q.Metrics[k]
                                    /\ id.rownum = ToString(r)
                                    /\ custom[q.Name].series[id]
                                         = MatchedCell(q.Metrics[k], res.cols, res.rows[r]).n
                /\ i < Len(cqConn.Queries) => i + 1 \in Executed

\* C31 witness: a spec with a missing label ran over scanned rows none of
\* which has a float64 metric cell and logged no warning, and the spec
\* declared after it, whose labels resolve, skipped a metric cell that is
\* not a float64 and emitted the sibling metric of the same row.
C31_Witness ==
    /\ cqPc = "returned"
    /\ \E i \in Executed :
        LET q == cqConn.Queries[i]
            res == cqAnswers[i]
        IN /\ ~res.err
           /\ ~LabelsResolve(q, res.cols)
           /\ ScannedRows(res) # {}
           /\ \A r \in ScannedRows(res) : \E k \in 1..Len(q.Metrics) :
                  OtherCell(q, k, res.cols, res.rows[r])
           /\ \A r \in ScannedRows(res) : \A k \in 1..Len(q.Metrics) :
                  ~FloatCell(q, k, res.cols, res.rows[r])
           /\ cqWarned[i] = 0
           /\ i + 1 \in Executed
           /\ LET q2 == cqConn.Queries[i + 1]
                  res2 == cqAnswers[i + 1]
              IN /\ ~res2.err
                 /\ LabelsResolve(q2, res2.cols)
                 /\ \E r \in ScannedRows(res2) : \E k, j \in 1..Len(q2.Metrics) :
                       /\ k < j
                       /\ OtherCell(q2, k, res2.cols, res2.rows[r])
                       /\ FloatCell(q2, j, res2.cols, res2.rows[r])
                       /\ <<q2.Metrics[j], ToString(r)>> \in EmittedPairs(custom[q2.Name])


(***************************************************************************)
(* A claim about concurrent calls of execConn, checked under SlotSpec.     *)
(***************************************************************************)
\* the slot is taken exactly while a call is between its send and its
\* deferred receive, by at most one call, and at most one probe subprocess
\* is in flight
SlotHeldByOne ==
    /\ Cardinality(Holders) <= 1
    /\ Cardinality({ c \in Callers : calls[c].pc = "run" }) <= 1
    /\ testStepAll = Cardinality(Holders)

\* a step in which call c passes the select at the head of execConn
Selects(c) == calls[c].pc = "idle" /\ calls'[c] # calls[c]

\* C32: execConn is single-flight per channel: at most one call holds the
\* slot and at most one probe subprocess is in flight; a call made while
\* another call holds the slot returns at once, launching nothing and
\* leaving the channel as it is; the slot is released on every exit of the
\* holder (the early return without an executable path, the return after
\* the parse, a panic), so that the channel is full only while a call holds
\* it and a call made while none holds it acquires it.
C32_SingleFlight ==
    /\ []SlotHeldByOne
    /\ [][\A c \in Callers :
            Selects(c) =>
                IF Holders # {}
                THEN /\ calls'[c] = [calls[c] EXCEPT !.last = "busy"]
                     /\ testStepAll' = testStepAll
                     /\ \A d \in Callers : calls'[d].pc = "run" => calls[d].pc = "run"
                ELSE /\ calls'[c].pc = "held"
                     /\ testStepAll' = BackConnCap]_vars

\* C32 witness: a call holds the slot with its probe in flight, after the
\* same caller's earlier call left by the early return; a call made
\* meanwhile by another caller, whose earlier call had ended in a panic or
\* a return, was turned away.
C32_Witness ==
    \E c, d \in Callers :
        /\ c # d
        /\ calls[c].pc = "run"
        /\ calls[c].last = "noexe"
        /\ calls[d].pc = "idle"
        /\ calls[d].last = "busy"
        /\ usedTimes # {}

====
